---- MODULE Spec2Model ----
(***************************************************************************)
(* Model of the upload validation and storage pipeline of download-server. *)
(*                                                                         *)
(* Strings of the program are sequences of one-character strings, so that  *)
(* String.startsWith, path.resolve, path.basename and the regular          *)
(* expressions of the sanitizers are computed character by character, as   *)
(* Node computes them on a POSIX host (path.sep = "/").                    *)
(*                                                                         *)
(* The module holds one specification per subsystem:                       *)
(*   SpecSafeJoin  safeJoin                                                *)
(*   SpecUpload    UploadService.upload                                    *)
(*   SpecAtomic    writeFileAtomic, two calls and a reader of targetPath   *)
(*   SpecValidate  validateAndDispatchPure and mediaValidationMiddleware   *)
(*   SpecProbe     validateAndDispatchPure on audio and video files        *)
(*   SpecSanitize  sanitizeFilename, applied once and twice                *)
(*   SpecCommit    saveTempFiles followed by commitTempToFinal             *)
(*   SpecSession   a commit with a saveTempFileStream call beside it       *)
(*   SpecConc      two requests committing two sessions, interleaved       *)
(*   SpecShared    two requests committing the same session                *)
(*   SpecTtl       a staged session growing old                            *)
(*   SpecDelete    deletePath, called twice                                *)
(*   SpecClosed    getTempFiles and commitTempToFinal after a commit       *)
(*   SpecAuth      ApiKeyService and authMiddleware                        *)
(***************************************************************************)
EXTENDS Integers, Sequences, FiniteSets, TLC

VARIABLES
    \* --- SpecSafeJoin: safeJoin --------------------------------------------
    sjRoot,      \* root argument of the last safeJoin call
    sjRel,       \* relative argument of the last safeJoin call
    sjOut,       \* its outcome: [kind |-> "none" | "ok" | "throw", path |-> ...]
    \* --- SpecUpload: UploadService.upload -----------------------------
    upRoot,      \* STORAGE_ROOT
    upPc,        \* "idle" | "loop" | "done" | "error"
    upDir,       \* targetDir of the running upload
    upLeft,      \* number of files of the request still to be written
    upKeep,      \* keepOriginalName
    upIo,        \* every path handed to fs.mkdir / fs.writeFile so far
    upMade,      \* the paths those calls created or wrote
    upResults,   \* the results array (filename and path of each entry)
    \* --- SpecAtomic: writeFileAtomic and a concurrent reader --------------
    awFs,        \* the directory of targetPath: path -> file (or no file)
    awPc,        \* position of each writeFileAtomic call
    awBuf,       \* the buffer argument of each call
    awSeen,      \* what the reader last read at targetPath
    \* --- SpecValidate: the two validation middlewares --------------------
    vFiles,      \* req.files: content (bytes) and client metadata of each file
    vReqType,    \* req.body.media_type / req.query.type ("" when absent)
    vMw,         \* the middleware handling the request: "none" | "pure" | "media"
    vPc,         \* "idle" | "loop" | "sent"
    vI,          \* number of files the loop has been through
    vKinds,      \* the category each file was given, in order
    vErrors,     \* errors: [index, reason]
    vValidated,  \* validated / validatedFiles
    vRes,        \* the response sent by the middleware (status 0: none)
    vNextCalled, \* next() was called
    vAttached,   \* req.validatedFiles
    vOnDisk,         \* positions of the batch's files multer left on disk (file.path)
    vWork,           \* what was done to the files, in order: [index, op]
    \* --- SpecSanitize: sanitizeFilename -----------------------------------
    sanIn,       \* the name handed to sanitizeFilename
    sanPc,       \* number of times sanitizeFilename has been applied (0..2)
    sanOut,      \* sanitizeFilename(sanIn)
    sanOut2,     \* sanitizeFilename(sanOut)
    \* --- SpecCommit: StorageService.saveTempFiles / commitTempToFinal ------
    cmFs,            \* the files on disk: path -> bytes
    cmDirs,          \* the directories on disk
    cmHook,          \* this.processHook is installed
    cmReq,           \* the requests: for each its position and the locals of its calls
    swReq,           \* a call of saveTempFileStream: its position and locals
    ttAge,           \* seconds since the session of request 1 was staged
    dpPc,            \* number of deletePath calls made (0..2)
    dpRel,           \* the relativePath of the deletePath calls
    dpFirst,         \* the disk before and after the first deletePath call
    dpReply,         \* what the deletePath calls returned, in order
    \* --- SpecAuth: ApiKeyService and authMiddleware --------------------------
    akStore,         \* the api_keys table: client id -> row
    akNow,           \* Date.now()
    akReq,           \* the request in authMiddleware: its position and locals
    akCount          \* requests answered so far

sjVars == <<sjRoot, sjRel, sjOut>>
upVars == <<upRoot, upPc, upDir, upLeft, upKeep, upIo, upMade, upResults>>

awVars == <<awFs, awPc, awBuf, awSeen>>

vVars == <<vFiles, vReqType, vMw, vPc, vI, vKinds, vErrors, vValidated, vRes, vNextCalled, vAttached,
           vOnDisk, vWork>>

sanVars == <<sanIn, sanPc, sanOut, sanOut2>>

cmDisk == <<cmFs, cmDirs>>
dpVars == <<dpPc, dpRel, dpFirst, dpReply>>
akVars == <<akStore, akNow, akReq, akCount>>
cmVars == <<cmDisk, cmHook, cmReq, swReq, ttAge, dpVars, akVars>>

vars == <<sjVars, upVars, awVars, vVars, sanVars, cmVars>>

(***************************************************************************)
(* Bounds of the model.                                                    *)
(***************************************************************************)
MaxRelLen == 5
MaxUploadPathLen == 5
MaxNameLen == 2
MaxUploadFiles == 2
AwMaxLen == 2
MaxBatch == 2
MaxSanTail == 3
MaxStaged == 2
MaxMappings == 2
MaxSessionMappings == 1
MaxOverdue == 2

(***************************************************************************)
(* Generic string helpers.                                                 *)
(***************************************************************************)
RECURSIVE StringsUpTo(_, _)
StringsUpTo(alphabet, n) ==
    IF n = 0 THEN {<<>>}
    ELSE LET shorter == StringsUpTo(alphabet, n - 1)
         IN  shorter \cup {Append(s, c) : s \in {t \in shorter : Len(t) = n - 1}, c \in alphabet}

\* String.prototype.startsWith
StartsWith(s, p) ==
    /\ Len(p) <= Len(s)
    /\ SubSeq(s, 1, Len(p)) = p

\* s.split(sep): the pieces between the occurrences of the one-character sep
RECURSIVE SplitFrom(_, _, _, _)
SplitFrom(s, sep, i, cur) ==
    IF i > Len(s) THEN <<cur>>
    ELSE IF s[i] = sep THEN <<cur>> \o SplitFrom(s, sep, i + 1, <<>>)
    ELSE SplitFrom(s, sep, i + 1, Append(cur, s[i]))

Split(s, sep) == SplitFrom(s, sep, 1, <<>>)

\* parts.join(sep)
RECURSIVE JoinWith(_, _)
JoinWith(parts, sep) ==
    IF Len(parts) = 0 THEN <<>>
    ELSE IF Len(parts) = 1 THEN parts[1]
    ELSE parts[1] \o <<sep>> \o JoinWith(Tail(parts), sep)

IsPrefixSeq(p, s) ==
    /\ Len(p) <= Len(s)
    /\ \A i \in 1..Len(p) : s[i] = p[i]

(***************************************************************************)
(* Node's POSIX path module.                                               *)
(***************************************************************************)
Sep == "/"
DotDot == <<".", ".">>
Dot == <<".">>

\* process.cwd() of the server
Cwd == <<"/", "w">>

IsAbsolute(p) == Len(p) > 0 /\ p[1] = Sep

\* normalizeString of lib/path.js on the segments of a path: "" and "." are
\* dropped, ".." removes the segment before it (and is dropped at the top of an
\* absolute path, kept in a relative one).
RECURSIVE NormSegs(_, _, _)
NormSegs(segs, acc, absolute) ==
    IF Len(segs) = 0 THEN acc
    ELSE LET s == Head(segs)
             rest == Tail(segs)
         IN  IF s = <<>> \/ s = Dot THEN NormSegs(rest, acc, absolute)
             ELSE IF s = DotDot
                  THEN IF Len(acc) > 0 /\ acc[Len(acc)] # DotDot
                       THEN NormSegs(rest, SubSeq(acc, 1, Len(acc) - 1), absolute)
                       ELSE IF absolute THEN NormSegs(rest, acc, absolute)
                            ELSE NormSegs(rest, Append(acc, s), absolute)
             ELSE NormSegs(rest, Append(acc, s), absolute)

\* The segments of an absolute, normalized path ("/" has none).
AbsSegs(p) == NormSegs(Split(p, Sep), <<>>, TRUE)

\* path.resolve(a, b): the rightmost absolute argument wins, the ones to its
\* right are appended, process.cwd() is the base when none is absolute; the
\* result is normalized and has no trailing separator.
PathResolve2(a, b) ==
    LET raw == IF IsAbsolute(b) THEN b
               ELSE IF IsAbsolute(a) THEN a \o <<Sep>> \o b
               ELSE Cwd \o <<Sep>> \o a \o <<Sep>> \o b
    IN  <<Sep>> \o JoinWith(AbsSegs(raw), Sep)

PathResolve1(a) == PathResolve2(a, <<>>)

\* path.join(a, b): path.normalize(a + "/" + b) (b empty: normalize(a)); for the
\* absolute a used here the result is absolute, and a trailing separator of the
\* joined text is kept.
PathJoin(a, b) ==
    LET raw == IF Len(b) = 0 THEN a ELSE a \o <<Sep>> \o b
        body == JoinWith(AbsSegs(raw), Sep)
        trailing == Len(raw) > 0 /\ raw[Len(raw)] = Sep /\ Len(body) > 0
    IN  <<Sep>> \o body \o (IF trailing THEN <<Sep>> ELSE <<>>)

\* path.basename(p): trailing separators are ignored, the text after the last
\* remaining separator is returned.
PathBasename(p) ==
    LET nonSep == {i \in 1..Len(p) : p[i] # Sep}
    IN  IF nonSep = {} THEN <<>>
        ELSE LET last == CHOOSE i \in nonSep : \A j \in nonSep : j <= i
                 seps == {i \in 1..last : p[i] = Sep}
                 cut == IF seps = {} THEN 0 ELSE CHOOSE i \in seps : \A j \in seps : j <= i
             IN  SubSeq(p, cut + 1, last)

\* path.extname(p): from the last "." of the basename to its end; "" when there
\* is no ".", when the only "." is the first character, or for "..".
RECURSIVE LastIndexOf(_, _, _)
LastIndexOf(s, c, i) ==
    IF i = 0 THEN 0
    ELSE IF s[i] = c THEN i
    ELSE LastIndexOf(s, c, i - 1)

PathExtname(p) ==
    LET b == PathBasename(p)
        k == LastIndexOf(b, ".", Len(b))
    IN  IF k <= 1 \/ b = DotDot THEN <<>>
        ELSE SubSeq(b, k, Len(b))

(***************************************************************************)
(* safeJoin (src/utils/fileUtils.ts).                                      *)
(***************************************************************************)
Thrown == [kind |-> "throw", path |-> <<>>]
Returned(p) == [kind |-> "ok", path |-> p]
NoCall == [kind |-> "none", path |-> <<>>]

\* The containment test of safeJoin without the separator: a plausible slip.
InsideRootNoSep(joined, normalizedRoot) ==
    StartsWith(joined, normalizedRoot) \/ joined = normalizedRoot

\* The containment test of safeJoin.
InsideRoot(joined, normalizedRoot) ==
    StartsWith(joined, normalizedRoot \o <<Sep>>) \/ joined = normalizedRoot

safeJoin(root, relative) ==
    LET normalizedRoot == PathResolve1(root)
        joined == PathResolve2(normalizedRoot, relative)
    IN  IF ~InsideRoot(joined, normalizedRoot) THEN Thrown
        ELSE Returned(joined)

\* A path lies inside a root at a separator boundary: the segments of the root
\* are the first segments of the path.
Contained(root, p) == IsPrefixSeq(AbsSegs(root), AbsSegs(p))

SjIdle ==
    /\ sjRoot = <<Sep>>
    /\ sjRel = <<>>
    /\ sjOut = NoCall

\* Roots handed to safeJoin: absolute, nested, with a trailing separator,
\* relative to process.cwd(), and the filesystem root.
SjRoots == { <<"/", "r">>, <<"/", "r", "/", "r">>, <<"/", "r", "/">>, <<"r">>, <<"/">> }

\* Relative inputs: every string up to MaxRelLen over separators, dots, names
\* and the backslash (an ordinary character on a POSIX host).
SjAlphabet == {"/", ".", "r", "E", "\\"}
SjInputs == StringsUpTo(SjAlphabet, MaxRelLen)

SjInit ==
    /\ sjRoot \in SjRoots
    /\ sjRel \in SjInputs
    /\ sjOut = NoCall

SafeJoinCall ==
    /\ sjOut = NoCall
    /\ sjOut' = safeJoin(sjRoot, sjRel)
    /\ UNCHANGED <<sjRoot, sjRel, upVars, awVars, vVars, sanVars, cmVars>>

(***************************************************************************)
(* UploadService (src/services/upload.service.ts).                         *)
(***************************************************************************)
Undefined == <<"undefined">>

\* s.replace(/^\/*/, ""): the leading separators are removed
RECURSIVE StripLeadingSep(_)
StripLeadingSep(s) ==
    IF Len(s) > 0 /\ s[1] = Sep THEN StripLeadingSep(Tail(s)) ELSE s

\* resolvePath with the separator-boundary test of safeJoin: what the check
\* would be if it were the one of safeJoin.
UploadInsideRoot(resolved, root) == StartsWith(resolved, root)

UploadService_resolvePath(root, uploadPath) ==
    LET safePath == IF uploadPath = Undefined \/ uploadPath = <<>> THEN <<>>
                    ELSE StripLeadingSep(uploadPath)
        resolved == PathResolve2(root, safePath)
    IN  IF ~UploadInsideRoot(resolved, root) THEN Thrown
        ELSE Returned(resolved)

FilenameChars == {"a", "E", "r", ".", "_", "-"}

\* name.replace(/[^a-zA-Z0-9._-]/g, "_")
UploadService_sanitizeFilename(name) ==
    [i \in 1..Len(name) |-> IF name[i] \in FilenameChars THEN name[i] ELSE "_"]

\* `${date}_${uuid}${ext}`: the date and the uuid are digits, hex letters and
\* dashes; one stem stands for them.
GeneratedStem == <<"0", "_", "0">>
UploadService_generateFilename(original) == GeneratedStem \o PathExtname(original)

\* path.relative(root, p) for a p under root: the segments after the root's
RelativeTo(root, p) ==
    LET rs == AbsSegs(root)
        ps == AbsSegs(p)
    IN  IF IsPrefixSeq(rs, ps) THEN JoinWith(SubSeq(ps, Len(rs) + 1, Len(ps)), Sep)
        ELSE <<".", ".">> \o <<Sep>> \o JoinWith(ps, Sep)

UploadRoots == { <<"/", "r">>, <<"/", "r", "/", "r">> }
UploadAlphabet == {"/", ".", "r"}
UploadPaths == StringsUpTo(UploadAlphabet, MaxUploadPathLen) \cup {Undefined}
OriginalNames == StringsUpTo({".", "a", "/"}, MaxNameLen) \ {<<>>}

\* The ancestors of a directory, itself included: what mkdir -p leaves behind.
Ancestors(p) ==
    LET segs == AbsSegs(p)
    IN  { <<Sep>> \o JoinWith(SubSeq(segs, 1, k), Sep) : k \in 0..Len(segs) }

UpInit ==
    /\ upRoot \in UploadRoots
    /\ upPc = "idle"
    /\ upDir = <<>>
    /\ upLeft = 0
    /\ upKeep = FALSE
    /\ upIo = {}
    /\ upMade = {}
    /\ upResults = <<>>

\* upload(): resolvePath, then fs.mkdir(targetDir, {recursive: true})
UploadStart ==
    /\ upPc = "idle"
    /\ \E uploadPath \in UploadPaths, n \in 0..MaxUploadFiles, keep \in BOOLEAN :
        LET r == UploadService_resolvePath(upRoot, uploadPath)
        IN  IF r.kind = "throw"
            THEN /\ upPc' = "error"
                 /\ UNCHANGED <<upDir, upLeft, upKeep, upIo, upMade, upResults>>
            ELSE /\ upPc' = IF n = 0 THEN "done" ELSE "loop"
                 /\ upDir' = r.path
                 /\ upLeft' = n
                 /\ upKeep' = keep
                 /\ upIo' = upIo \cup {r.path}
                 /\ upMade' = upMade \cup {r.path}
                 /\ upResults' = <<>>
    /\ UNCHANGED <<upRoot, sjVars, awVars, vVars, sanVars, cmVars>>

\* one turn of the loop over files: the name, path.join, fs.writeFile, push.
\* fs.writeFile on a path that names a directory fails (EISDIR) and the
\* rejection leaves upload().
UploadWriteFile ==
    /\ upPc = "loop"
    /\ \E originalname \in OriginalNames :
        LET filename == IF upKeep THEN UploadService_sanitizeFilename(originalname)
                        ELSE UploadService_generateFilename(originalname)
            fullPath == PathJoin(upDir, filename)
            isDir == <<Sep>> \o JoinWith(AbsSegs(fullPath), Sep) \in Ancestors(upDir)
        IN  /\ upIo' = upIo \cup {fullPath}
            /\ IF isDir
               THEN /\ upPc' = "error"
                    /\ UNCHANGED <<upLeft, upMade, upResults>>
               ELSE /\ upMade' = upMade \cup {fullPath}
                    /\ upResults' = Append(upResults,
                           [filename |-> filename, path |-> RelativeTo(upRoot, fullPath)])
                    /\ upLeft' = upLeft - 1
                    /\ upPc' = IF upLeft = 1 THEN "done" ELSE "loop"
    /\ UNCHANGED <<upRoot, upDir, upKeep, sjVars, awVars, vVars, sanVars, cmVars>>

UpIdle ==
    /\ upRoot = <<Sep>>
    /\ upPc = "idle"
    /\ upDir = <<>>
    /\ upLeft = 0
    /\ upKeep = FALSE
    /\ upIo = {}
    /\ upMade = {}
    /\ upResults = <<>>

(***************************************************************************)
(* writeFileAtomic (src/utils/fileUtils.ts) with a concurrent reader.      *)
(* A file is [exists, data]; fs.writeFile opens its path with O_CREAT and  *)
(* O_TRUNC and then writes the buffer piece by piece; any step may fail    *)
(* (disk full, permission) and rejects the call where it stands.           *)
(***************************************************************************)
NoFile == [exists |-> FALSE, data |-> <<>>]
File(d) == [exists |-> TRUE, data |-> d]

Bytes == {1, 2}
Buffers == StringsUpTo(Bytes, AwMaxLen)

Writers == {1, 2}
TargetPath == <<"target">>

\* Writing in place: the temporary path is the target itself.
TmpPathInPlace(w) == TargetPath

\* `${targetPath}.tmp-${crypto.randomBytes(6).toString("hex")}`: a sibling name
\* of its own for every call.
TmpPath(w) == <<"target.tmp", w>>

AwPaths == {TargetPath} \cup {<<"target.tmp", w>> : w \in Writers}

\* The content targetPath had before the calls: no file, or an earlier file.
OldFiles == {NoFile, File(<<2, 1, 2>>)}

AwIdle ==
    /\ awFs = [p \in AwPaths |-> NoFile]
    /\ awPc = [w \in Writers |-> "idle"]
    /\ awBuf = [w \in Writers |-> <<>>]
    /\ awSeen = NoFile

AwInit ==
    /\ \E old \in OldFiles : awFs = [p \in AwPaths |-> IF p = TargetPath THEN old ELSE NoFile]
    /\ awPc = [w \in Writers |-> "idle"]
    /\ awBuf = [w \in Writers |-> <<>>]
    /\ awSeen = awFs[TargetPath]

\* the call, and ensureDir(path.dirname(targetPath))
AwEnsureDir(w) ==
    /\ awPc[w] = "idle"
    /\ \E b \in Buffers : awBuf' = [awBuf EXCEPT ![w] = b]
    /\ awPc' = [awPc EXCEPT ![w] = "open"]
    /\ UNCHANGED <<awFs, awSeen, sjVars, upVars, vVars, sanVars, cmVars>>

\* fs.writeFile(tmp, buffer): open(tmp, O_WRONLY | O_CREAT | O_TRUNC)
AwOpenTmp(w) ==
    /\ awPc[w] = "open"
    /\ awFs' = [awFs EXCEPT ![TmpPath(w)] = File(<<>>)]
    /\ awPc' = [awPc EXCEPT ![w] = IF awBuf[w] = <<>> THEN "rename" ELSE "write"]
    /\ UNCHANGED <<awBuf, awSeen, sjVars, upVars, vVars, sanVars, cmVars>>

\* fs.writeFile(tmp, buffer): one write(2) of the next piece of the buffer
AwWriteChunk(w) ==
    /\ awPc[w] = "write"
    /\ LET tmp == TmpPath(w)
           done == Len(awFs[tmp].data)
       IN  /\ done < Len(awBuf[w])
           /\ awFs' = [awFs EXCEPT ![tmp] = File(Append(awFs[tmp].data, awBuf[w][done + 1]))]
           /\ awPc' = [awPc EXCEPT ![w] = IF done + 1 = Len(awBuf[w]) THEN "rename" ELSE "write"]
    /\ UNCHANGED <<awBuf, awSeen, sjVars, upVars, vVars, sanVars, cmVars>>

\* fs.rename(tmp, targetPath): targetPath names the file tmp named
AwRename(w) ==
    /\ awPc[w] = "rename"
    /\ LET tmp == TmpPath(w)
       IN  awFs' = [p \in AwPaths |->
                       IF p = TargetPath THEN awFs[tmp]
                       ELSE IF p = tmp THEN NoFile
                       ELSE awFs[p]]
    /\ awPc' = [awPc EXCEPT ![w] = "done"]
    /\ UNCHANGED <<awBuf, awSeen, sjVars, upVars, vVars, sanVars, cmVars>>

\* an awaited step rejects: the call ends there, nothing is undone
AwFail(w) ==
    /\ awPc[w] \in {"open", "write", "rename"}
    /\ awPc' = [awPc EXCEPT ![w] = "failed"]
    /\ UNCHANGED <<awFs, awBuf, awSeen, sjVars, upVars, vVars, sanVars, cmVars>>

\* a reader opens targetPath and reads the file it names
AwRead ==
    /\ awSeen' = awFs[TargetPath]
    /\ awSeen' # awSeen
    /\ UNCHANGED <<awFs, awPc, awBuf, sjVars, upVars, vVars, sanVars, cmVars>>

(***************************************************************************)
(* Upload validation: validateAndDispatchPure                              *)
(* (src/middlewares/media-validate-and-dispatch.middleware.ts) and         *)
(* mediaValidationMiddleware with detectFileRule and FILE_RULES.           *)
(*                                                                         *)
(* A MIME type is [type, sub]; a filename is the sequence of its parts     *)
(* between dots.  The bytes of a file are known by what the decoders make  *)
(* of them: the signature file-type finds, what Jimp and pdf-lib decode,   *)
(* what ffprobe reports, and their length.                                 *)
(***************************************************************************)
Mime(t, u) == [type |-> t, sub |-> u]
NoMime == Mime("", "")
MB == 1024 * 1024

\* RULES of validateAndDispatchPure (defaults of the environment variables)
RULES_image_maxBytes == 10 * MB
RULES_image_maxWidth == 8000
RULES_image_maxHeight == 10000
RULES_document_maxBytes == 200 * MB
RULES_document_maxPages == 200
RULES_audio_maxBytes == 50 * MB
RULES_audio_maxDuration == 600
RULES_video_maxBytes == 500 * MB
RULES_video_maxDuration == 1800
RULES_video_maxWidth == 3840
RULES_video_maxHeight == 2160
RULES_general_maxTotalFiles == 200

\* FILE_RULES, in order
FILE_RULES == <<
    [category |-> "image",
     mimeTypes |-> {Mime("image", "jpeg"), Mime("image", "png"), Mime("image", "webp"), Mime("image", "gif")},
     extensions |-> {"jpg", "jpeg", "png", "webp", "gif"},
     maxSize |-> 5 * MB],
    [category |-> "video",
     mimeTypes |-> {Mime("video", "mp4"), Mime("video", "webm"), Mime("video", "quicktime")},
     extensions |-> {"mp4", "webm", "mov"},
     maxSize |-> 150 * MB],
    [category |-> "audio",
     mimeTypes |-> {Mime("audio", "mpeg"), Mime("audio", "wav"), Mime("audio", "ogg")},
     extensions |-> {"mp3", "wav", "ogg"},
     maxSize |-> 20 * MB],
    [category |-> "json",
     mimeTypes |-> {Mime("application", "json")},
     extensions |-> {"json"},
     maxSize |-> 2 * MB],
    [category |-> "text",
     mimeTypes |-> {Mime("text", "plain")},
     extensions |-> {"txt"},
     maxSize |-> 1 * MB],
    [category |-> "zip",
     mimeTypes |-> {Mime("application", "zip"), Mime("application", "x-zip-compressed")},
     extensions |-> {"zip"},
     maxSize |-> 50 * MB] >>

NoRule == [category |-> "none", mimeTypes |-> {}, extensions |-> {}, maxSize |-> 0]

\* The bytes of an upload.
\*   magic: the signature fileTypeFromBuffer finds (NoMime: none), magicExt its ext
\*   size:  the length of the bytes
\*   jimp:  Jimp.read: decodes or throws, and the bitmap's width and height
\*   pages: PDFDocument.load: the page count, -1 when it throws
\*   probe: ffprobe reports a format (with its duration) or nothing
Content(magic, magicExt, size, jimpOk, w, h, pages, probeOk, duration) ==
    [magic |-> magic, magicExt |-> magicExt, size |-> size,
     jimpOk |-> jimpOk, width |-> w, height |-> h,
     pages |-> pages, probeOk |-> probeOk, duration |-> duration]

PngBytes == Content(Mime("image", "png"), "png", 50000, TRUE, 800, 600, -1, FALSE, 0)
PngWideBytes == Content(Mime("image", "png"), "png", 50000, TRUE, 9000, 600, -1, FALSE, 0)
PngHugeBytes == Content(Mime("image", "png"), "png", 11 * MB, TRUE, 800, 600, -1, FALSE, 0)
PlainBytes == Content(NoMime, "", 50000, FALSE, 0, 0, -1, FALSE, 0)
PdfBytes == Content(Mime("application", "pdf"), "pdf", 50000, FALSE, 0, 0, 3, FALSE, 0)
EmptyBytes == Content(NoMime, "", 0, FALSE, 0, 0, -1, FALSE, 0)

Contents == {PngBytes, PngWideBytes, PngHugeBytes, PlainBytes, PdfBytes, EmptyBytes}
DeclaredMimes == {Mime("image", "png"), Mime("text", "plain"), Mime("audio", "mpeg")}
DeclaredNames == {<<"a", "png">>, <<"evil", "txt">>}

\* An Express.Multer.File (memory storage): buffer, size, mimetype, originalname
UploadedFiles ==
    [content : Contents, mimetype : DeclaredMimes, originalname : DeclaredNames]

FileSize(file) == file.content.size

\* detectFileType: fileTypeFromBuffer(file.buffer)
detectFileType(file) ==
    [found |-> file.content.magic # NoMime, mime |-> file.content.magic, ext |-> file.content.magicExt]

\* (file.originalname || "").split(".").pop().toLowerCase(); the names of the
\* model are lower-case
NameExt(name) == name[Len(name)]

\* rule.extensions.test(file.originalname): /\.(...)$/i
ExtensionMatches(rule, name) == Len(name) >= 2 /\ name[Len(name)] \in rule.extensions

\* lines 308-332 of validateAndDispatchPure: mime, ext and kind of a file
PureMime(file) ==
    LET dt == detectFileType(file)
    IN  IF dt.found THEN dt.mime ELSE file.mimetype

PureExt(file) ==
    LET dt == detectFileType(file)
    IN  IF dt.found THEN dt.ext ELSE NameExt(file.originalname)

PureKind(file) ==
    LET mime == PureMime(file)
        ext == PureExt(file)
    IN  IF mime.type = "image" THEN "image"
        ELSE IF mime.type = "video" THEN "video"
        ELSE IF mime.type = "audio" THEN "audio"
        ELSE IF mime = Mime("application", "pdf") THEN "document"
        ELSE IF ext \in {"jpg", "jpeg", "png", "webp", "gif", "bmp", "tif", "tiff"} THEN "image"
        ELSE IF ext \in {"mp4", "mkv", "mov", "avi", "webm"} THEN "video"
        ELSE IF ext \in {"mp3", "wav", "ogg", "m4a"} THEN "audio"
        ELSE IF ext = "pdf" THEN "document"
        ELSE "unknown"

Ok(meta) == [ok |-> TRUE, reason |-> "", meta |-> meta]
Fail(reason) == [ok |-> FALSE, reason |-> reason, meta |-> "null"]

validateImage(file) ==
    IF FileSize(file) > RULES_image_maxBytes THEN Fail("file too large")
    ELSE IF ~file.content.jimpOk THEN Fail("image metadata failed")
    ELSE IF file.content.width > RULES_image_maxWidth THEN Fail("width")
    ELSE IF file.content.height > RULES_image_maxHeight THEN Fail("height")
    ELSE Ok("dimensions")

validateDocument(file) ==
    IF FileSize(file) > RULES_document_maxBytes THEN Fail("document too large")
    ELSE IF file.content.pages < 0 THEN Fail("pdf parse failed")
    ELSE IF file.content.pages > RULES_document_maxPages THEN Fail("too many pages")
    ELSE Ok("pages")

validateAudioVideo(file, kind) ==
    LET maxBytes == IF kind = "audio" THEN RULES_audio_maxBytes ELSE RULES_video_maxBytes
        maxDuration == IF kind = "audio" THEN RULES_audio_maxDuration ELSE RULES_video_maxDuration
    IN  IF FileSize(file) > maxBytes THEN Fail("file too large")
        ELSE IF file.content.probeOk
             THEN IF file.content.duration > 0 /\ file.content.duration > maxDuration
                  THEN Fail("duration")
                  ELSE IF kind = "video" /\ file.content.width > 0
                          /\ file.content.width > RULES_video_maxWidth THEN Fail("width")
                  ELSE IF kind = "video" /\ file.content.height > 0
                          /\ file.content.height > RULES_video_maxHeight THEN Fail("height")
                  ELSE Ok("probe")
             \* fallback: accept based on mime prefix only
             ELSE Ok("null")

\* The byte limit a validator of validateAndDispatchPure holds a kind to
PureMaxBytes(kind) ==
    CASE kind = "image" -> RULES_image_maxBytes
      [] kind = "document" -> RULES_document_maxBytes
      [] kind = "audio" -> RULES_audio_maxBytes
      [] kind = "video" -> RULES_video_maxBytes
      [] OTHER -> 0

\* What one turn of the loop of validateAndDispatchPure does to a file, in
\* order: detectFileType reads the signature (line 307), then, unless the
\* requested type rejects the file, the validator of the kind compares
\* file.size with its limit and only then decodes (Jimp, pdf-lib) or probes
PureWork(file, requestedType) ==
    LET kind == PureKind(file)
    IN  <<"signature">> \o
        (IF requestedType # "" /\ requestedType # "mixed" /\ requestedType # kind THEN <<>>
         ELSE IF kind = "unknown" THEN <<>>
         ELSE IF FileSize(file) > PureMaxBytes(kind) THEN <<"size">>
         ELSE <<"size", "decode">>)

\* lines 334-359: the requested type, then the validator of the kind
PureOutcome(file, requestedType) ==
    LET kind == PureKind(file)
    IN  IF requestedType # "" /\ requestedType # "mixed" /\ requestedType # kind
        THEN Fail("expected other type")
        ELSE IF kind = "image" THEN validateImage(file)
        ELSE IF kind = "document" THEN validateDocument(file)
        ELSE IF kind = "audio" THEN validateAudioVideo(file, "audio")
        ELSE IF kind = "video" THEN validateAudioVideo(file, "video")
        ELSE Fail("unsupported file type")

\* detectFileRule: the first rule whose MIME types hold the declared MIME type
\* and whose extensions match the declared name
RECURSIVE FindRule(_, _)
FindRule(file, k) ==
    IF k > Len(FILE_RULES) THEN NoRule
    ELSE IF /\ file.mimetype \in FILE_RULES[k].mimeTypes
            /\ ExtensionMatches(FILE_RULES[k], file.originalname)
         THEN FILE_RULES[k]
    ELSE FindRule(file, k + 1)

detectFileRule(file) == FindRule(file, 1)

\* the loop body of mediaValidationMiddleware: "" when the file passes, else
\* the code of the 400 response
MediaVerdict(file) ==
    LET rule == detectFileRule(file)
    IN  IF FileSize(file) = 0 THEN "EMPTY_FILE"
        ELSE IF rule = NoRule THEN "INVALID_FILE_TYPE"
        ELSE IF FileSize(file) > rule.maxSize THEN "FILE_TOO_LARGE"
        ELSE ""

\* What mediaValidationMiddleware does to the files it sees: it compares
\* file.size with the limit of the rule and never reads the bytes
MediaWork(files, seen) ==
    LET sized == SelectSeq([k \in 1..seen |-> k],
                           LAMBDA k : FileSize(files[k]) # 0 /\ detectFileRule(files[k]) # NoRule)
    IN  [j \in 1..Len(sized) |-> [index |-> sized[j] - 1, op |-> "size"]]

NoResponse == [status |-> 0, code |-> "", details |-> <<>>]
NotAttached == [set |-> FALSE, files |-> <<>>]

VIdle ==
    /\ vFiles = <<>>
    /\ vReqType = ""
    /\ vMw = "none"
    /\ vPc = "idle"
    /\ vI = 0
    /\ vKinds = <<>>
    /\ vErrors = <<>>
    /\ vValidated = <<>>
    /\ vRes = NoResponse
    /\ vNextCalled = FALSE
    /\ vAttached = NotAttached
    /\ vOnDisk = {}
    /\ vWork = <<>>

RECURSIVE SeqsUpTo(_, _)
SeqsUpTo(S, n) ==
    IF n = 0 THEN {<<>>}
    ELSE LET shorter == SeqsUpTo(S, n - 1)
         IN  shorter \cup {Append(q, x) : q \in {t \in shorter : Len(t) = n - 1}, x \in S}

\* a request after multer: its files, kept in memory or all stored on disk, and
\* the type its body or query asks for
VInit ==
    /\ vFiles \in SeqsUpTo(UploadedFiles, MaxBatch)
    /\ vReqType \in {"", "image"}
    /\ vMw = "none"
    /\ vPc = "idle"
    /\ vI = 0
    /\ vKinds = <<>>
    /\ vErrors = <<>>
    /\ vValidated = <<>>
    /\ vRes = NoResponse
    /\ vNextCalled = FALSE
    /\ vAttached = NotAttached
    /\ vOnDisk \in {{}, 1..Len(vFiles)}
    /\ vWork = <<>>

\* Audio and video uploads: ffprobe reports a format with a duration and, for
\* a video, the width and height of the video stream, or no probe is
\* available, or it fails or reports no format (probeOk FALSE)
Mp3Bytes == Content(Mime("audio", "mpeg"), "mp3", 50000, FALSE, 0, 0, -1, TRUE, 100)
Mp3LongBytes == Content(Mime("audio", "mpeg"), "mp3", 50000, FALSE, 0, 0, -1, TRUE, 700)
Mp3UnprobedBytes == Content(Mime("audio", "mpeg"), "mp3", 50000, FALSE, 0, 0, -1, FALSE, 0)
Mp4Bytes == Content(Mime("video", "mp4"), "mp4", 50000, FALSE, 1920, 1080, -1, TRUE, 100)
Mp4WideBytes == Content(Mime("video", "mp4"), "mp4", 50000, FALSE, 4000, 1080, -1, TRUE, 100)
Mp4UnprobedBytes == Content(Mime("video", "mp4"), "mp4", 50000, FALSE, 0, 0, -1, FALSE, 0)
AvContents == {Mp3Bytes, Mp3LongBytes, Mp3UnprobedBytes, Mp4Bytes, Mp4WideBytes, Mp4UnprobedBytes}
AvFiles == [content : AvContents, mimetype : {Mime("audio", "mpeg")}, originalname : {<<"a", "mp3">>}]

\* a request after multer whose files are audio and video files
ProbeInit ==
    /\ vFiles \in SeqsUpTo(AvFiles, MaxBatch)
    /\ vReqType \in {"", "audio"}
    /\ vMw = "none"
    /\ vPc = "idle"
    /\ vI = 0
    /\ vKinds = <<>>
    /\ vErrors = <<>>
    /\ vValidated = <<>>
    /\ vRes = NoResponse
    /\ vNextCalled = FALSE
    /\ vAttached = NotAttached
    /\ vOnDisk \in {{}, 1..Len(vFiles)}
    /\ vWork = <<>>

\* deleteIfOnDisk(file): fs.unlink(file.path) when multer stored the file on
\* disk, errors ignored
deleteIfOnDisk(onDisk, k) == onDisk \ {k}

\* errors.length after the loop, looking at the last entry only: a plausible slip
PureRejectsLastOnly(errors, n) == Len(errors) > 0 /\ errors[Len(errors)].index = n - 1

\* if (errors.length): the batch is rejected
PureRejects(errors, n) == Len(errors) > 0

\* validateAndDispatchPure up to its loop: no files, too many files
PureStart ==
    /\ vPc = "idle"
    /\ vMw' = "pure"
    /\ IF Len(vFiles) = 0
       THEN /\ vRes' = [status |-> 400, code |-> "no files uploaded", details |-> <<>>]
            /\ vPc' = "sent"
       ELSE IF Len(vFiles) > RULES_general_maxTotalFiles
       THEN /\ vRes' = [status |-> 400, code |-> "too many files in request", details |-> <<>>]
            /\ vPc' = "sent"
       ELSE /\ vPc' = "loop"
            /\ vRes' = vRes
    /\ UNCHANGED <<vFiles, vReqType, vI, vKinds, vErrors, vValidated, vNextCalled, vAttached,
                   vOnDisk, vWork, sjVars, upVars, awVars, sanVars, cmVars>>

\* one turn of the loop of validateAndDispatchPure (i = vI, counted from 0)
PureStep ==
    /\ vPc = "loop"
    /\ vMw = "pure"
    /\ vI < Len(vFiles)
    /\ LET file == vFiles[vI + 1]
           kind == PureKind(file)
           outcome == PureOutcome(file, vReqType)
       IN  /\ vKinds' = Append(vKinds, kind)
           /\ vWork' = vWork \o [k \in 1..Len(PureWork(file, vReqType)) |->
                                   [index |-> vI, op |-> PureWork(file, vReqType)[k]]]
           /\ IF ~outcome.ok
              THEN /\ vErrors' = Append(vErrors, [index |-> vI, reason |-> outcome.reason])
                   /\ vValidated' = vValidated
                   /\ vOnDisk' = deleteIfOnDisk(vOnDisk, vI + 1)
              ELSE /\ vValidated' = Append(vValidated,
                          [index |-> vI, originalname |-> file.originalname,
                           size |-> FileSize(file), mime |-> PureMime(file),
                           ext |-> PureExt(file), type |-> kind, meta |-> outcome.meta])
                   /\ vErrors' = vErrors
                   /\ vOnDisk' = vOnDisk
    /\ vI' = vI + 1
    /\ UNCHANGED <<vFiles, vReqType, vMw, vPc, vRes, vNextCalled, vAttached,
                   sjVars, upVars, awVars, sanVars, cmVars>>

\* after the loop: the 400 with the details, or req.validatedFiles and next()
PureFinish ==
    /\ vPc = "loop"
    /\ vMw = "pure"
    /\ vI = Len(vFiles)
    /\ IF PureRejects(vErrors, Len(vFiles))
       THEN /\ vRes' = [status |-> 400, code |-> "validation_failed", details |-> vErrors]
            /\ UNCHANGED <<vNextCalled, vAttached>>
       ELSE /\ vAttached' = [set |-> TRUE, files |-> vValidated]
            /\ vNextCalled' = TRUE
            /\ vRes' = vRes
    /\ vPc' = "sent"
    /\ UNCHANGED <<vFiles, vReqType, vMw, vI, vKinds, vErrors, vValidated, vOnDisk, vWork,
                   sjVars, upVars, awVars, sanVars, cmVars>>

\* mediaValidationMiddleware is synchronous: the files before the first one
\* that fails are validated, the first failure sends its 400 and returns
RECURSIVE MediaFirstFailure(_, _)
MediaFirstFailure(files, k) ==
    IF k > Len(files) THEN 0
    ELSE IF MediaVerdict(files[k]) # "" THEN k
    ELSE MediaFirstFailure(files, k + 1)

MediaValidation ==
    /\ vPc = "idle"
    /\ vMw' = "media"
    /\ vPc' = "sent"
    /\ LET bad == MediaFirstFailure(vFiles, 1)
           seen == IF bad = 0 THEN Len(vFiles) ELSE bad
           passedUpTo == IF bad = 0 THEN Len(vFiles) ELSE bad - 1
           validatedFiles == [k \in 1..passedUpTo |->
                                 [file |-> vFiles[k], category |-> detectFileRule(vFiles[k]).category]]
       IN  /\ vI' = seen
           /\ vWork' = MediaWork(vFiles, seen)
           /\ vKinds' = [k \in 1..seen |->
                            IF FileSize(vFiles[k]) = 0 THEN "unseen"
                            ELSE detectFileRule(vFiles[k]).category]
           /\ vValidated' = validatedFiles
           /\ IF Len(vFiles) = 0
              THEN /\ vRes' = [status |-> 400, code |-> "NO_FILES", details |-> <<>>]
                   /\ UNCHANGED <<vNextCalled, vAttached>>
              ELSE IF bad # 0
              THEN /\ vRes' = [status |-> 400, code |-> MediaVerdict(vFiles[bad]), details |-> <<>>]
                   /\ UNCHANGED <<vNextCalled, vAttached>>
              ELSE /\ vAttached' = [set |-> TRUE, files |-> validatedFiles]
                   /\ vNextCalled' = TRUE
                   /\ vRes' = vRes
    /\ UNCHANGED <<vFiles, vReqType, vErrors, vOnDisk, sjVars, upVars, awVars, sanVars, cmVars>>

(***************************************************************************)
(* sanitizeFilename (src/utils/fileUtils.ts).                              *)
(***************************************************************************)
SanMaxLen == 200

WhitespaceChars == {" "}
LowerChars == {"a", "b", "c", "d", "e", "f", "g", "h", "i", "j", "k", "l", "m",
               "n", "o", "p", "q", "r", "s", "t", "u", "v", "w", "x", "y", "z"}
UpperChars == {"A", "B", "C", "D", "E", "F", "G", "H", "I", "J", "K", "L", "M",
               "N", "O", "P", "Q", "R", "S", "T", "U", "V", "W", "X", "Y", "Z"}
DigitChars == {"0", "1", "2", "3", "4", "5", "6", "7", "8", "9"}
SafeNameChars == LowerChars \cup UpperChars \cup DigitChars \cup {"-", "_", "."}

\* .replace(/\s+/g, "_"): every run of whitespace becomes one "_"
RunStart(s, i) == s[i] \notin WhitespaceChars \/ i = 1 \/ s[i - 1] \notin WhitespaceChars
Kept(mark) == mark[2]
CollapseWhitespace(s) ==
    LET marks == [i \in 1..Len(s) |->
                    <<IF s[i] \in WhitespaceChars THEN "_" ELSE s[i], RunStart(s, i)>>]
        kept == SelectSeq(marks, Kept)
    IN  [i \in 1..Len(kept) |-> kept[i][1]]

\* .replace(/[^a-zA-Z0-9\-_.]/g, "_"): every other character becomes "_"
ReplaceUnsafe(s) == [i \in 1..Len(s) |-> IF s[i] \in SafeNameChars THEN s[i] ELSE "_"]

\* .replace(/^_+|_+$/g, ""): the leading and the trailing underscores go
TrimUnderscores(s) ==
    LET solid == {i \in 1..Len(s) : s[i] # "_"}
    IN  IF solid = {} THEN <<>>
        ELSE LET first == CHOOSE i \in solid : \A j \in solid : i <= j
                 last == CHOOSE i \in solid : \A j \in solid : j <= i
             IN  SubSeq(s, first, last)

\* .slice(0, 200)
Slice(s, n) == IF Len(s) <= n THEN s ELSE SubSeq(s, 1, n)

sanitizeFilename(name) ==
    IF name = <<>> THEN <<>>
    ELSE LET base == PathBasename(name)
             cleaned == TrimUnderscores(ReplaceUnsafe(CollapseWhitespace(base)))
         IN  Slice(cleaned, SanMaxLen)

\* n times the character c
Repeat(c, n) == [i \in 1..n |-> c]

\* Names handed to sanitizeFilename: every string up to MaxSanTail over a safe
\* letter, the underscore, the dot, whitespace, an unsafe character and the
\* separator, alone or after a run of letters that brings it around the
\* 200-character cut.
SanAlphabet == {"a", "_", ".", " ", "!", "/"}
SanPads == {0} \cup ((SanMaxLen - MaxSanTail)..SanMaxLen)
\* The name of the example scenario: 'My Photo!!.PNG'
ExampleName == <<"M", "y", " ", "P", "h", "o", "t", "o", "!", "!", ".", "P", "N", "G">>
SanInputs ==
    {Repeat("a", k) \o t : k \in SanPads, t \in StringsUpTo(SanAlphabet, MaxSanTail)}
        \cup {ExampleName}

SanIdle ==
    /\ sanIn = <<>>
    /\ sanPc = 0
    /\ sanOut = <<>>
    /\ sanOut2 = <<>>

SanInit ==
    /\ sanIn \in SanInputs
    /\ sanPc = 0
    /\ sanOut = <<>>
    /\ sanOut2 = <<>>

\* sanitizeFilename(name)
SanitizeOnce ==
    /\ sanPc = 0
    /\ sanOut' = sanitizeFilename(sanIn)
    /\ sanPc' = 1
    /\ UNCHANGED <<sanIn, sanOut2, sjVars, upVars, awVars, vVars, cmVars>>

\* sanitizeFilename applied to its own result
SanitizeAgain ==
    /\ sanPc = 1
    /\ sanOut2' = sanitizeFilename(sanOut)
    /\ sanPc' = 2
    /\ UNCHANGED <<sanIn, sanOut, sjVars, upVars, awVars, vVars, cmVars>>

(***************************************************************************)
(* StorageService: saveTempFiles and commitTempToFinal.                    *)
(***************************************************************************)
TEMP_ROOT == <<"/", "t">>
FINAL_ROOT == <<"/", "f">>

\* The hex SHA-256 digest of a buffer.  The model keeps the one property of the
\* hash the program relies on: different buffers have different digests.
computeSha256(buffer) == <<"sha256", buffer>>

\* String(n) for the indexes of the model
DigitNames == <<"0", "1", "2", "3", "4", "5", "6", "7", "8", "9">>
NumberToString(n) == <<DigitNames[n + 1]>>

\* path.dirname of an absolute, normalized path
PathDirname(p) ==
    LET segs == AbsSegs(p)
    IN  IF Len(segs) = 0 THEN <<Sep>>
        ELSE <<Sep>> \o JoinWith(SubSeq(segs, 1, Len(segs) - 1), Sep)

\* The file system: files are a function from path to bytes, directories a set.
FsWrite(fs, p, bytes) == [q \in (DOMAIN fs) \cup {p} |-> IF q = p THEN bytes ELSE fs[q]]
FsUnlink(fs, p) == [q \in (DOMAIN fs) \ {p} |-> fs[q]]
\* Only the path itself removed, not what lies under it: a plausible slip.
FsRmOnly(fs, d) == [q \in (DOMAIN fs) \ {d} |-> fs[q]]

\* fs.rm(d, {recursive: true, force: true}) on the files
FsRmTree(fs, d) == [q \in {q \in DOMAIN fs : ~Contained(d, q)} |-> fs[q]]
DirsRmTree(dirs, d) == {q \in dirs : ~Contained(d, q)}
ensureDir(dirs, d) == dirs \cup Ancestors(d)
pathExists(fs, dirs, p) == p \in DOMAIN fs \/ p \in dirs

\* uuidv4(): the session id minted by saveTempFiles for request c, and the
\* token of the n-th tmpDest of request c
SessionIdOf(c) == <<"s">> \o NumberToString(c)
ProcUuid(c, n) == <<"u">> \o NumberToString(c) \o NumberToString(n)

\* `${targetPath}.tmp-${hex}` of writeFileAtomic
AtomicTmp(targetPath, c) == targetPath \o <<".", "t", "m", "p", "-", "h">> \o NumberToString(c)

\* `${finalAbs}.proc.tmp-${uuidv4()}`
ProcTmp(finalAbs, c, n) ==
    finalAbs \o <<".", "p", "r", "o", "c", ".", "t", "m", "p", "-">> \o ProcUuid(c, n)

\* `file-${mapping.tempIndex}`
DefaultName(tempIndex) == <<"f", "i", "l", "e", "-">> \o NumberToString(tempIndex)

\* absToPublicPath(finalRoot, absolutePath)
absToPublicPath(finalRoot, absolutePath) ==
    LET normalizedRoot == PathResolve1(finalRoot)
        normalizedPath == PathResolve1(absolutePath)
    IN  IF ~StartsWith(normalizedPath, normalizedRoot) THEN Thrown
        ELSE Returned(RelativeTo(normalizedRoot, normalizedPath))

\* The batches handed to saveTempFiles: n files, the i-th holding i bytes i.
SampleBytes(i) == [k \in 1..i |-> i]
StagedInputs == {[i \in 1..n |-> SampleBytes(i)] : n \in 0..MaxStaged}

\* The arguments of commitTempToFinal
TargetBases == {<<"b">>, <<Sep, "b">>, DotDot}
NoOptions == [given |-> FALSE, failIfMissing |-> FALSE]
CommitOptions == {NoOptions} \cup [given : {TRUE}, failIfMissing : BOOLEAN]
MappingNames == {<<>>, <<"a">>, <<"!">>}
MappingInputs == [tempIndex : 0..MaxStaged, filename : MappingNames]

\* What the hook may do with tmpDest: write its output there, leave it and
\* return null, write to it and return null all the same (the hook assigned in
\* index.ts does when processImage fails after its toFile), take it away,
\* or throw (before or after writing to it).
HookOutput == <<7, 7, 7, 7>>
Null == "null"
HookMeta == [mime |-> "image/webp", metadata |-> "meta"]
NoProcessResult == [mime |-> Null, metadata |-> Null]
NothingSaved == [tempId |-> <<>>, files |-> <<>>]
Coalesce(value, default) == IF value = Null THEN default ELSE value
HookOutcomes == {"wrote", "null", "wroteAndNull", "removed", "threw", "wroteAndThrew"}
NoMapping == [tempIndex |-> 0, filename |-> <<>>]

\* The requests of the model: each stages a session of its own with
\* saveTempFiles and then calls commitTempToFinal.
Procs == {1, 2}

NoReply == [kind |-> "none", results |-> <<>>, error |-> "none"]
NoListing == [kind |-> "none", entries |-> {}]

\* A request before its first call
ReadyRequest ==
    [pc |-> "ready",                  \* ready, staged, loop, hook, write, stat, recorded, returned, threw
     staged |-> <<>>,                 \* the buffers handed to saveTempFiles, by index
     tempSaved |-> NothingSaved,      \* what saveTempFiles returned
     tempId |-> <<>>,                 \* commitTempToFinal: tempId
     tempDir |-> <<>>,                \* commitTempToFinal: tempDir
     finalBaseAbs |-> <<>>,           \* commitTempToFinal: finalBaseAbs
     options |-> NoOptions,           \* commitTempToFinal: options
     i |-> 0,                         \* number of mappings the loop has gone through
     mapping |-> NoMapping,           \* the loop's current mapping
     buffer |-> <<>>,                 \* buffer: the bytes read from the temp file
     filename |-> <<>>,               \* filename: the sanitized name of the current mapping
     finalAbs |-> <<>>,               \* finalAbs of the current mapping
     tmpDest |-> <<>>,                \* tmpDest handed to the hook
     toWrite |-> <<>>,                \* the bytes the pending writeFileAtomic(finalAbs, ...) carries
     fromTmp |-> FALSE,               \* the pending write is the one followed by unlink(tmpDest)
     inTry |-> FALSE,                 \* the pending write is inside the try block of the hook
     processResult |-> NoProcessResult,
     hookOutcome |-> "none",          \* what the hook did for the current mapping
     results |-> <<>>,                \* results
     reply |-> NoReply,               \* what the caller of commitTempToFinal received
     listing |-> NoListing]           \* what the caller of getTempFiles received

\* A request that is never made
OffRequest == [ReadyRequest EXCEPT !.pc = "off"]

\* A call of saveTempFileStream before it is made, and one never made
IdleStream ==
    [pc |-> "idle",                   \* idle, dir, piped, done, threw
     tempId |-> <<>>,                 \* tid
     index |-> 0,                     \* idx
     tempDir |-> <<>>,                \* tempDir
     tempPath |-> <<>>,               \* tempPath
     commitBegun |-> FALSE,           \* at the call, a commit of that session was in progress
     duringCommit |-> FALSE,          \* the file landed while a commit of that session was in progress
     reply |-> "none"]                \* none, record, or the error

OffStream == [IdleStream EXCEPT !.pc = "off"]

\* A disk, and the snapshot taken when no deletePath call was made
DiskOf(fs, dirs) == [fs |-> fs, dirs |-> dirs]
NoSnapshot == [before |-> DiskOf(<<>>, {}), after |-> DiskOf(<<>>, {})]

\* hmacSecret(value): HMAC-SHA256 under the pepper, one digest per value
hmacSecret(value) == <<"hmac", value>>

\* A row of api_keys as ApiKeyService writes and reads it (found FALSE: null)
KeyRow(id, userId, secretHash, revoked, expiresAt) ==
    [found |-> TRUE, id |-> id, user_id |-> userId, secret_hash |-> secretHash,
     revoked |-> revoked, expires_at |-> expiresAt]
NoKey == [found |-> FALSE, id |-> <<>>, user_id |-> "", secret_hash |-> hmacSecret(<<>>),
          revoked |-> FALSE, expires_at |-> 0]

\* A request before authMiddleware runs
IdleAuth ==
    [pc |-> "idle",              \* idle, lookup, validated, done
     raw |-> <<>>,               \* the x-api-key header
     clientId |-> <<>>,          \* parts[2]
     clientSecret |-> <<>>,      \* parts.slice(3).join("_")
     key |-> NoKey,              \* what findOne returned
     result |-> NoKey,           \* what validate returned
     revokedAtLookup |-> FALSE,  \* the row of clientId was revoked when findOne ran
     checkedAt |-> 0,            \* Date.now() when validate compared expires_at
     status |-> "none"]          \* none, 401, next

\* No key, no request
AkIdle ==
    /\ akStore = <<>>
    /\ akNow = 0
    /\ akReq = IdleAuth
    /\ akCount = 0

\* No stream call, no clock, no deletePath call
StreamIdle == swReq = OffStream
TtlIdle == ttAge = 0
DeleteIdle ==
    /\ dpPc = 0
    /\ dpRel = <<>>
    /\ dpFirst = NoSnapshot
    /\ dpReply = <<>>

CmQuiet ==
    /\ cmFs = <<>>
    /\ cmDirs = {}
    /\ cmHook = FALSE
    /\ cmReq = [c \in Procs |-> OffRequest]
    /\ StreamIdle
    /\ TtlIdle
    /\ DeleteIdle

CmIdle == CmQuiet /\ AkIdle

\* new StorageService(): both roots exist; the hook is assigned or not
CmDisk ==
    /\ cmFs = <<>>
    /\ cmDirs = ensureDir(ensureDir({}, TEMP_ROOT), FINAL_ROOT)

\* One client
CmInit ==
    /\ CmDisk
    /\ cmHook \in BOOLEAN
    /\ cmReq = [c \in Procs |-> IF c = 1 THEN ReadyRequest ELSE OffRequest]
    /\ StreamIdle
    /\ TtlIdle
    /\ AkIdle
    /\ DeleteIdle

Base == <<sjVars, upVars, awVars, vVars, sanVars, akVars>>
Others == <<Base, swReq, ttAge, dpVars>>

\* saveTempFiles(multerFiles)
SaveTempFilesOf(c, stagedInputs) ==
    /\ cmReq[c].pc = "ready"
    /\ \E files \in stagedInputs :
        LET tempId == SessionIdOf(c)
            tempDir == safeJoin(TEMP_ROOT, tempId).path
            tempPath(idx) == PathJoin(tempDir, NumberToString(idx))
            written == {tempPath(i - 1) : i \in 1..Len(files)}
            idxOf(p) == CHOOSE i \in 1..Len(files) : tempPath(i - 1) = p
        IN  /\ cmDirs' = ensureDir(cmDirs, tempDir)
            /\ cmFs' = [p \in (DOMAIN cmFs) \cup written |->
                          IF p \in written THEN files[idxOf(p)] ELSE cmFs[p]]
            /\ cmReq' = [cmReq EXCEPT ![c] =
                    [@ EXCEPT !.pc = "staged",
                              !.staged = files,
                              !.tempSaved =
                                  [tempId |-> tempId,
                                   files |-> [i \in 1..Len(files) |->
                                                [index |-> i - 1, size |-> Len(files[i]),
                                                 tempPath |-> tempPath(i - 1)]]]]]
    /\ UNCHANGED <<cmHook, Others>>

SaveTempFiles == \E c \in Procs : SaveTempFilesOf(c, StagedInputs)

\* commitTempToFinal rejects with an Error
CommitThrows(req, message) ==
    [req EXCEPT !.pc = "threw",
                !.reply = [kind |-> "error", results |-> <<>>, error |-> message]]

\* options?.failIfMissing
FailIfMissing(options) == options.given /\ options.failIfMissing

\* commitTempToFinal, up to the loop over the mappings
CommitCallOf(c, tempIds, targetBases, optionsGiven) ==
    /\ \E tempId \in tempIds, targetBase \in targetBases, options \in optionsGiven :
        LET tempDir == safeJoin(TEMP_ROOT, tempId)
            cleanedTargetBase == StripLeadingSep(targetBase)
            finalBaseAbs == safeJoin(FINAL_ROOT, cleanedTargetBase)
            call == [cmReq[c] EXCEPT !.tempId = tempId, !.options = options,
                                     !.results = <<>>, !.reply = NoReply, !.i = 0]
        IN  IF tempDir = Thrown
            THEN /\ cmReq' = [cmReq EXCEPT ![c] =
                         CommitThrows(call, "Invalid path: outside of storage root")]
                 /\ UNCHANGED cmDirs
            ELSE IF ~pathExists(cmFs, cmDirs, tempDir.path)
            THEN /\ cmReq' = [cmReq EXCEPT ![c] = CommitThrows(call, "temp id not found")]
                 /\ UNCHANGED cmDirs
            ELSE IF finalBaseAbs = Thrown
            THEN /\ cmReq' = [cmReq EXCEPT ![c] =
                         CommitThrows(call, "Invalid path: outside of storage root")]
                 /\ UNCHANGED cmDirs
            ELSE /\ cmDirs' = ensureDir(cmDirs, finalBaseAbs.path)
                 /\ cmReq' = [cmReq EXCEPT ![c] =
                         [call EXCEPT !.pc = "loop",
                                      !.tempDir = tempDir.path,
                                      !.finalBaseAbs = finalBaseAbs.path]]
    /\ UNCHANGED <<cmFs, cmHook, Others>>

\* The first commit of a request on a staged session
CommitStartOf(c, tempIds, targetBases, optionsGiven) ==
    /\ cmReq[c].pc = "staged"
    /\ CommitCallOf(c, tempIds, targetBases, optionsGiven)

\* A later commitTempToFinal with the tempId of a commit that has returned
CommitAgainOf(c, targetBases, optionsGiven) ==
    /\ cmReq[c].pc = "returned"
    /\ CommitCallOf(c, {cmReq[c].tempId}, targetBases, optionsGiven)

\* The tempIds request c may send: its own session's, an unknown one, ".." and
\* the empty string.  One set per request, each a definition of its own.
FirstTempIds == {SessionIdOf(1), <<"x">>, DotDot, <<>>}
SecondTempIds == {SessionIdOf(2), <<"x">>, DotDot, <<>>}
CommitTempIds(c) == IF c = 1 THEN FirstTempIds ELSE SecondTempIds

CommitStart == \E c \in Procs : CommitStartOf(c, CommitTempIds(c), TargetBases, CommitOptions)

\* The temp file of a mapping taken by its position in the list instead of its
\* tempIndex: a plausible slip.
TempPathOfPosition(tempDir, mapping, position) == PathJoin(tempDir, NumberToString(position))

\* The temp file of a mapping: path.join(tempDir, String(mapping.tempIndex)).
TempPathOf(tempDir, mapping, position) == PathJoin(tempDir, NumberToString(mapping.tempIndex))

\* for (const mapping of mappings): the next mapping, up to the write of
\* tmpDest for the hook or to the raw write when there is no hook
CommitTakeOf(c, mappingInputs, maxMappings) ==
    /\ cmReq[c].pc \in {"loop", "recorded"}
    /\ cmReq[c].i < maxMappings
    /\ \E mapping \in mappingInputs :
        LET req == cmReq[c]
            tempPath == TempPathOf(req.tempDir, mapping, req.i)
            filename == IF mapping.filename # <<>>
                        THEN sanitizeFilename(mapping.filename)
                        ELSE sanitizeFilename(DefaultName(mapping.tempIndex))
            finalAbs == safeJoin(req.finalBaseAbs, filename)
            tmpDest == ProcTmp(finalAbs.path, c, req.i)
            taken == [req EXCEPT !.mapping = mapping,
                                 !.processResult = NoProcessResult,
                                 !.hookOutcome = "none"]
        IN  IF ~pathExists(cmFs, cmDirs, tempPath)
            THEN /\ cmReq' = [cmReq EXCEPT ![c] =
                        IF FailIfMissing(req.options)
                        THEN CommitThrows(taken, "temp file index missing")
                        ELSE [taken EXCEPT !.pc = "loop", !.i = req.i + 1]]
                 /\ UNCHANGED cmDisk
            ELSE IF finalAbs = Thrown
            THEN /\ cmReq' = [cmReq EXCEPT ![c] =
                        CommitThrows([taken EXCEPT !.filename = filename],
                                     "Invalid path: outside of storage root")]
                 /\ UNCHANGED cmDisk
            ELSE IF tempPath \notin DOMAIN cmFs
            THEN /\ cmReq' = [cmReq EXCEPT ![c] =
                        CommitThrows([taken EXCEPT !.filename = filename,
                                                   !.finalAbs = finalAbs.path], "EISDIR")]
                 /\ UNCHANGED cmDisk
            ELSE IF cmHook
            THEN /\ cmDirs' = ensureDir(cmDirs, PathDirname(tmpDest))
                 /\ cmFs' = FsWrite(cmFs, tmpDest, cmFs[tempPath])
                 /\ cmReq' = [cmReq EXCEPT ![c] =
                        [taken EXCEPT !.pc = "hook",
                                      !.filename = filename,
                                      !.finalAbs = finalAbs.path,
                                      !.buffer = cmFs[tempPath],
                                      !.tmpDest = tmpDest]]
            ELSE /\ cmReq' = [cmReq EXCEPT ![c] =
                        [taken EXCEPT !.pc = "write",
                                      !.filename = filename,
                                      !.finalAbs = finalAbs.path,
                                      !.buffer = cmFs[tempPath],
                                      !.toWrite = cmFs[tempPath],
                                      !.fromTmp = FALSE,
                                      !.inTry = FALSE]]
                 /\ UNCHANGED cmDisk
    /\ UNCHANGED <<cmHook, Others>>

CommitTake == \E c \in Procs : CommitTakeOf(c, MappingInputs, MaxMappings)

\* await this.processHook({...}), then the choice of the bytes for finalAbs
HookRunsOf(c) ==
    /\ cmReq[c].pc = "hook"
    /\ \E outcome \in HookOutcomes :
        LET req == cmReq[c]
            fs == CASE outcome \in {"wrote", "wroteAndNull", "wroteAndThrew"} ->
                          FsWrite(cmFs, req.tmpDest, HookOutput)
                    [] outcome = "removed" -> FsUnlink(cmFs, req.tmpDest)
                    [] OTHER -> cmFs
            ran == [req EXCEPT !.pc = "write",
                               !.hookOutcome = outcome,
                               !.processResult = IF outcome \in {"wrote", "removed"}
                                                 THEN HookMeta ELSE NoProcessResult]
        IN  /\ cmFs' = fs
            /\ cmReq' = [cmReq EXCEPT ![c] =
                    IF outcome \in {"threw", "wroteAndThrew"}
                    THEN \* catch: fall back to the raw copy
                         [ran EXCEPT !.toWrite = req.buffer, !.fromTmp = FALSE, !.inTry = FALSE]
                    ELSE IF pathExists(fs, cmDirs, req.tmpDest)
                    THEN [ran EXCEPT !.toWrite = fs[req.tmpDest], !.fromTmp = TRUE, !.inTry = TRUE]
                    ELSE [ran EXCEPT !.toWrite = req.buffer, !.fromTmp = FALSE, !.inTry = TRUE]]
    /\ UNCHANGED <<cmDirs, cmHook, Others>>

HookRuns == \E c \in Procs : HookRunsOf(c)

\* await writeFileAtomic(finalAbs, ...): the temporary file is written and
\* renamed onto finalAbs; the rename onto a directory fails and leaves the
\* temporary file
CommitWriteOf(c) ==
    /\ cmReq[c].pc = "write"
    /\ LET req == cmReq[c]
       IN  /\ cmDirs' = ensureDir(cmDirs, PathDirname(req.finalAbs))
           /\ IF req.finalAbs \notin cmDirs
              THEN /\ cmFs' = IF req.fromTmp
                              THEN FsUnlink(FsWrite(cmFs, req.finalAbs, req.toWrite), req.tmpDest)
                              ELSE FsWrite(cmFs, req.finalAbs, req.toWrite)
                   /\ cmReq' = [cmReq EXCEPT ![c] = [req EXCEPT !.pc = "stat"]]
              ELSE /\ cmFs' = FsWrite(cmFs, AtomicTmp(req.finalAbs, c), req.toWrite)
                   /\ cmReq' = [cmReq EXCEPT ![c] =
                          IF req.inTry
                          THEN \* catch: fall back to the raw copy
                               [req EXCEPT !.toWrite = req.buffer, !.fromTmp = FALSE,
                                           !.inTry = FALSE]
                          ELSE CommitThrows(req, "EISDIR")]
    /\ UNCHANGED <<cmHook, Others>>

CommitWrite == \E c \in Procs : CommitWriteOf(c)

\* The digest computed from the buffer read from the temp file: a plausible
\* slip.
HashedBufferStaged(finalBuffer, buffer) == buffer

\* The buffer the digest is computed from: the one read back from finalAbs.
HashedBuffer(finalBuffer, buffer) == finalBuffer

\* stat, read back, digest, results.push({...})
CommitRecordOf(c) ==
    /\ cmReq[c].pc = "stat"
    /\ LET req == cmReq[c]
       IN  IF req.finalAbs \notin DOMAIN cmFs
           THEN cmReq' = [cmReq EXCEPT ![c] = CommitThrows(req, "ENOENT")]
           ELSE LET stat == [size |-> Len(cmFs[req.finalAbs])]
                    finalBuffer == cmFs[req.finalAbs]
                    sha == computeSha256(HashedBuffer(finalBuffer, req.buffer))
                    publicPath == absToPublicPath(FINAL_ROOT, req.finalAbs)
                IN  cmReq' = [cmReq EXCEPT ![c] =
                        [req EXCEPT
                            !.pc = "recorded",
                            !.i = req.i + 1,
                            !.results = Append(req.results,
                                [filename |-> req.filename,
                                 storage_path |-> publicPath.path,
                                 mime |-> Coalesce(req.processResult.mime,
                                                   "application/octet-stream"),
                                 size_bytes |-> stat.size,
                                 sha256 |-> sha,
                                 metadata |-> Coalesce(req.processResult.metadata, Null)])]]
    /\ UNCHANGED <<cmDisk, cmHook, Others>>

CommitRecord == \E c \in Procs : CommitRecordOf(c)

\* The directory safeRm is called on after the loop: tempDir.  The slip
\* removes the whole temp root.
CleanedUpRoot(tempDir) == TEMP_ROOT

CleanedUp(tempDir) == tempDir

\* The mappings are exhausted: safeRm(tempDir), return results
CommitReturnOf(c) ==
    /\ cmReq[c].pc \in {"loop", "recorded"}
    /\ cmFs' = FsRmTree(cmFs, CleanedUp(cmReq[c].tempDir))
    /\ cmDirs' = DirsRmTree(cmDirs, CleanedUp(cmReq[c].tempDir))
    /\ cmReq' = [cmReq EXCEPT ![c] =
            [@ EXCEPT !.pc = "returned",
                      !.reply = [kind |-> "results", results |-> cmReq[c].results, error |-> "none"]]]
    /\ UNCHANGED <<cmHook, Others>>

CommitReturn == \E c \in Procs : CommitReturnOf(c)

\* getTempFiles(tempId) on the tempId of the request's commit
GetTempFilesOf(c) ==
    /\ cmReq[c].pc = "returned"
    /\ cmReq[c].listing = NoListing
    /\ LET tempDir == safeJoin(TEMP_ROOT, cmReq[c].tempId)
       IN  cmReq' = [cmReq EXCEPT ![c].listing =
             IF tempDir = Thrown THEN [kind |-> "Invalid path: outside of storage root", entries |-> {}]
             ELSE IF ~pathExists(cmFs, cmDirs, tempDir.path)
             THEN [kind |-> "temp id not found", entries |-> {}]
             ELSE [kind |-> "files",
                   entries |-> {p \in DOMAIN cmFs : PathDirname(p) = tempDir.path}]]
    /\ UNCHANGED <<cmDisk, cmHook, Others>>

GetTempFiles == \E c \in Procs : GetTempFilesOf(c)

(***************************************************************************)
(* saveTempFileStream, called while a request stages and commits.          *)
(***************************************************************************)
\* Date.now(), the fallback index
StreamNow == 9

\* The content of the stream
StreamBytes == <<8, 8>>

\* The tempId argument (empty: not given) and the index argument (-1: not given)
StreamTempIds == {SessionIdOf(1), <<>>}
StreamIndexes == {-1} \cup (0..MaxStaged)

\* A commitTempToFinal on the directory is between its first line and its return
CommitInProgress(tempDir) ==
    \E c \in Procs :
        /\ cmReq[c].pc \in {"loop", "hook", "write", "stat", "recorded"}
        /\ cmReq[c].tempDir = tempDir

\* saveTempFileStream up to await ensureDir(tempDir)
StreamStart ==
    /\ swReq.pc = "idle"
    /\ \E tempId \in StreamTempIds, index \in StreamIndexes :
        LET tid == IF tempId # <<>> THEN tempId ELSE ProcUuid(0, 0)
            tempDir == safeJoin(TEMP_ROOT, tid)
            idx == IF index >= 0 THEN index ELSE StreamNow
        IN  IF tempDir = Thrown
            THEN /\ swReq' = [swReq EXCEPT !.pc = "threw", !.tempId = tid,
                                           !.reply = "Invalid path: outside of storage root"]
                 /\ UNCHANGED cmDirs
            ELSE /\ cmDirs' = ensureDir(cmDirs, tempDir.path)
                 /\ swReq' = [swReq EXCEPT
                        !.pc = "dir",
                        !.tempId = tid,
                        !.index = idx,
                        !.tempDir = tempDir.path,
                        !.tempPath = PathJoin(tempDir.path, NumberToString(idx)),
                        !.commitBegun = CommitInProgress(tempDir.path)]
    /\ UNCHANGED <<cmFs, cmHook, cmReq, ttAge, dpVars, Base>>

\* await pipelineStreamToFile(stream, tempPath): the directory of the
\* destination is ensured again and the stream is written through
StreamPipe ==
    /\ swReq.pc = "dir"
    /\ cmDirs' = ensureDir(cmDirs, PathDirname(swReq.tempPath))
    /\ cmFs' = FsWrite(cmFs, swReq.tempPath, StreamBytes)
    /\ swReq' = [swReq EXCEPT !.pc = "piped",
                              !.duringCommit = CommitInProgress(swReq.tempDir)]
    /\ UNCHANGED <<cmHook, cmReq, ttAge, dpVars, Base>>

\* await fsp.stat(tempPath), return the record
StreamReturn ==
    /\ swReq.pc = "piped"
    /\ swReq' = IF swReq.tempPath \in DOMAIN cmFs
                THEN [swReq EXCEPT !.pc = "done", !.reply = "record"]
                ELSE [swReq EXCEPT !.pc = "threw", !.reply = "ENOENT"]
    /\ UNCHANGED <<cmDisk, cmHook, cmReq, ttAge, dpVars, Base>>

\* The request next to the stream: it stages at most one file and commits its
\* own session with at most MaxSessionMappings mappings
SessionStaged == {[i \in 1..n |-> SampleBytes(i)] : n \in 0..1}
SessionMappings == [tempIndex : {0}, filename : {<<"a">>}]
SessionStage == SaveTempFilesOf(1, SessionStaged)
SessionCommitStart == CommitStartOf(1, {SessionIdOf(1)}, {<<"b">>}, {NoOptions})
SessionTake == CommitTakeOf(1, SessionMappings, MaxSessionMappings)

SessionInit ==
    /\ CmDisk
    /\ cmHook \in BOOLEAN
    /\ cmReq = [c \in Procs |-> IF c = 1 THEN ReadyRequest ELSE OffRequest]
    /\ swReq = IdleStream
    /\ TtlIdle
    /\ AkIdle
    /\ DeleteIdle

(***************************************************************************)
(* The age of a staged session.  config.tempTtl is read by no code of the  *)
(* repository and no timer touches the temp root (the only setInterval,    *)
(* in utils/hmac.utils.ts, unlinks old files of the logs directory), so    *)
(* the passing of time is the only step next to the staging.               *)
(***************************************************************************)
\* config.tempTtl: Number(env.TEMP_TTL || 3600), in seconds
tempTtl == 3600

TtlStage == SaveTempFilesOf(1, StagedInputs)

\* One second passes for the staged session
TtlTick ==
    /\ cmReq[1].pc = "staged"
    /\ ttAge < tempTtl + MaxOverdue
    /\ ttAge' = ttAge + 1
    /\ UNCHANGED <<cmDisk, cmHook, cmReq, swReq, dpVars, Base>>

(***************************************************************************)
(* deletePath, called twice with the same relativePath on a final tree.    *)
(***************************************************************************)
\* safeRm(p): fsp.rm(p, {recursive: true, force: true}), errors ignored
safeRm(disk, p) == DiskOf(FsRmTree(disk.fs, p), DirsRmTree(disk.dirs, p))

\* What deletePath answers according to whether the path existed: the slip
\* reports a missing path as an error.
DeleteReplyIfRemoved(existed) == IF existed THEN "true" ELSE "ENOENT"

\* What deletePath answers after safeRm: return true.
DeleteReply(existed) == "true"

\* deletePath(relativePath) on a disk: the disk it leaves and its answer
deletePath(disk, relativePath) ==
    LET cleaned == StripLeadingSep(relativePath)
        abs == safeJoin(FINAL_ROOT, cleaned)
    IN  IF abs = Thrown
        THEN [disk |-> disk, reply |-> "Invalid path: outside of storage root"]
        ELSE [disk |-> safeRm(disk, abs.path),
              reply |-> DeleteReply(pathExists(disk.fs, disk.dirs, abs.path))]

\* The files a final tree may hold (one of them in the temp root, outside the
\* reach of deletePath) and an empty directory
DeleteTreeFiles ==
    {FINAL_ROOT \o <<Sep, "a">>,
     FINAL_ROOT \o <<Sep, "d", Sep, "a">>,
     FINAL_ROOT \o <<Sep, "d", Sep, "e", Sep, "a">>,
     TEMP_ROOT \o <<Sep, "a">>}
DeleteTreeDirs == {FINAL_ROOT \o <<Sep, "g">>}

RECURSIVE EnsureDirs(_, _)
EnsureDirs(dirs, ds) ==
    IF ds = {} THEN dirs
    ELSE LET d == CHOOSE x \in ds : TRUE
         IN  EnsureDirs(ensureDir(dirs, d), ds \ {d})

\* The relativePath arguments: files, directories, missing paths, the root
\* itself, a leading slash, and paths with ".."
DeleteInputs ==
    {<<"a">>, <<Sep, "a">>, <<"d">>, <<"d", Sep, "a">>, <<"d", Sep, "e">>, <<"g">>,
     <<"x">>, <<"d", Sep, "x">>, <<>>, <<Sep>>, <<".">>, DotDot, DotDot \o <<Sep, "t">>,
     <<"d", Sep>> \o DotDot \o <<Sep, "a">>}

DeleteInit ==
    /\ \E files \in SUBSET DeleteTreeFiles, empty \in SUBSET DeleteTreeDirs :
        /\ cmFs = [p \in files |-> SampleBytes(1)]
        /\ cmDirs = EnsureDirs(ensureDir(ensureDir({}, TEMP_ROOT), FINAL_ROOT),
                               {PathDirname(p) : p \in files} \cup empty)
    /\ cmHook = FALSE
    /\ cmReq = [c \in Procs |-> OffRequest]
    /\ StreamIdle
    /\ TtlIdle
    /\ AkIdle
    /\ DeleteIdle

\* The first deletePath(relativePath)
DeleteFirst ==
    /\ dpPc = 0
    /\ \E relativePath \in DeleteInputs :
        LET before == DiskOf(cmFs, cmDirs)
            call == deletePath(before, relativePath)
        IN  /\ dpRel' = relativePath
            /\ cmFs' = call.disk.fs
            /\ cmDirs' = call.disk.dirs
            /\ dpFirst' = [before |-> before, after |-> call.disk]
            /\ dpReply' = <<call.reply>>
    /\ dpPc' = 1
    /\ UNCHANGED <<cmHook, cmReq, swReq, ttAge, Base>>

\* deletePath(relativePath) once more
DeleteAgain ==
    /\ dpPc = 1
    /\ LET call == deletePath(DiskOf(cmFs, cmDirs), dpRel)
       IN  /\ cmFs' = call.disk.fs
           /\ cmDirs' = call.disk.dirs
           /\ dpReply' = Append(dpReply, call.reply)
    /\ dpPc' = 2
    /\ UNCHANGED <<dpRel, dpFirst, cmHook, cmReq, swReq, ttAge, Base>>

(***************************************************************************)
(* The calls made on a tempId after its commit has returned.               *)
(***************************************************************************)
ClosedStage == SaveTempFilesOf(1, StagedInputs)
ClosedCommitStart == CommitStartOf(1, {SessionIdOf(1)}, {<<"b">>}, CommitOptions)
ClosedCommitAgain == CommitAgainOf(1, {<<"b">>}, {NoOptions})

\* The mappings of that commit: any tempIndex, present or not, one filename
ClosedMappings == [tempIndex : 0..MaxStaged, filename : {<<"a">>}]
ClosedTake == CommitTakeOf(1, ClosedMappings, MaxMappings)

(***************************************************************************)
(* Two requests, each staging and committing its own session into its own  *)
(* target directory, their steps interleaved.                              *)
(***************************************************************************)
\* What request c stages and where it commits to: the bytes and the target
\* differ between the requests
ConcStaged(c) == {<<SampleBytes(c)>>}
ConcBase(c) == <<"b">> \o NumberToString(c)

ConcStage == \E c \in Procs : SaveTempFilesOf(c, ConcStaged(c))
ConcCommitStart == \E c \in Procs : CommitStartOf(c, {SessionIdOf(c)}, {ConcBase(c)}, {NoOptions})

\* The i-th mapping of a commit: the staged file under a filename of its own,
\* so that all final target paths differ
ConcMappings(i) == [tempIndex : {0}, filename : {<<"a">> \o NumberToString(i)}]
ConcTake ==
    \E c \in Procs : CommitTakeOf(c, ConcMappings(cmReq[c].i), MaxSessionMappings)

ConcInit ==
    /\ CmDisk
    /\ cmHook \in BOOLEAN
    /\ cmReq = [c \in Procs |-> ReadyRequest]
    /\ StreamIdle
    /\ TtlIdle
    /\ AkIdle
    /\ DeleteIdle

(***************************************************************************)
(* Two commitTempToFinal calls on one tempId: request 1 stages and         *)
(* commits its session, request 2 was handed the same tempId and commits   *)
(* it too, into its own target directory.                                  *)
(***************************************************************************)
SharedStage == SaveTempFilesOf(1, ConcStaged(1))
SharedCommitStart == CommitStartOf(1, {SessionIdOf(1)}, {ConcBase(1)}, {NoOptions})
SharedCommitJoin ==
    /\ cmReq[2].pc = "ready"
    /\ CommitCallOf(2, {SessionIdOf(1)}, {ConcBase(2)}, {NoOptions})

(***************************************************************************)
(* Specifications.                                                         *)
(***************************************************************************)
InitSafeJoin == SjInit /\ UpIdle /\ AwIdle /\ VIdle /\ SanIdle /\ CmIdle
NextSafeJoin == SafeJoinCall
SpecSafeJoin == InitSafeJoin /\ [][NextSafeJoin]_vars

InitUpload == UpInit /\ SjIdle /\ AwIdle /\ VIdle /\ SanIdle /\ CmIdle
NextUpload == UploadStart \/ UploadWriteFile
SpecUpload == InitUpload /\ [][NextUpload]_vars

InitAtomic == AwInit /\ SjIdle /\ UpIdle /\ VIdle /\ SanIdle /\ CmIdle
NextAtomic ==
    \/ \E w \in Writers : AwEnsureDir(w)
    \/ \E w \in Writers : AwOpenTmp(w)
    \/ \E w \in Writers : AwWriteChunk(w)
    \/ \E w \in Writers : AwRename(w)
    \/ \E w \in Writers : AwFail(w)
    \/ AwRead
SpecAtomic == InitAtomic /\ [][NextAtomic]_vars

InitValidate == VInit /\ SjIdle /\ UpIdle /\ AwIdle /\ SanIdle /\ CmIdle
NextValidate == PureStart \/ PureStep \/ PureFinish \/ MediaValidation
SpecValidate == InitValidate /\ [][NextValidate]_vars

InitProbe == ProbeInit /\ SjIdle /\ UpIdle /\ AwIdle /\ SanIdle /\ CmIdle
NextProbe == PureStart \/ PureStep \/ PureFinish
SpecProbe == InitProbe /\ [][NextProbe]_vars

InitSanitize == SanInit /\ SjIdle /\ UpIdle /\ AwIdle /\ VIdle /\ CmIdle
NextSanitize == SanitizeOnce \/ SanitizeAgain
SpecSanitize == InitSanitize /\ [][NextSanitize]_vars

InitCommit == CmInit /\ SjIdle /\ UpIdle /\ AwIdle /\ VIdle /\ SanIdle
NextCommit ==
    \/ SaveTempFiles
    \/ CommitStart
    \/ CommitTake
    \/ HookRuns
    \/ CommitWrite
    \/ CommitRecord
    \/ CommitReturn
SpecCommit == InitCommit /\ [][NextCommit]_vars

InitSession == SessionInit /\ SjIdle /\ UpIdle /\ AwIdle /\ VIdle /\ SanIdle
NextSession ==
    \/ SessionStage
    \/ SessionCommitStart
    \/ SessionTake
    \/ HookRuns
    \/ CommitWrite
    \/ CommitRecord
    \/ CommitReturn
    \/ StreamStart
    \/ StreamPipe
    \/ StreamReturn
SpecSession == InitSession /\ [][NextSession]_vars

InitTtl == CmInit /\ SjIdle /\ UpIdle /\ AwIdle /\ VIdle /\ SanIdle
NextTtl == TtlStage \/ TtlTick
SpecTtl == InitTtl /\ [][NextTtl]_vars

InitDelete == DeleteInit /\ SjIdle /\ UpIdle /\ AwIdle /\ VIdle /\ SanIdle
NextDelete == DeleteFirst \/ DeleteAgain
SpecDelete == InitDelete /\ [][NextDelete]_vars

InitClosed == CmInit /\ SjIdle /\ UpIdle /\ AwIdle /\ VIdle /\ SanIdle
NextClosed ==
    \/ ClosedStage
    \/ ClosedCommitStart
    \/ ClosedTake
    \/ HookRuns
    \/ CommitWrite
    \/ CommitRecord
    \/ CommitReturn
    \/ GetTempFiles
    \/ ClosedCommitAgain
SpecClosed == InitClosed /\ [][NextClosed]_vars

InitConc == ConcInit /\ SjIdle /\ UpIdle /\ AwIdle /\ VIdle /\ SanIdle
NextConc ==
    \/ ConcStage
    \/ ConcCommitStart
    \/ ConcTake
    \/ HookRuns
    \/ CommitWrite
    \/ CommitRecord
    \/ CommitReturn
SpecConc == InitConc /\ [][NextConc]_vars

InitShared == ConcInit /\ SjIdle /\ UpIdle /\ AwIdle /\ VIdle /\ SanIdle
NextShared ==
    \/ SharedStage
    \/ SharedCommitStart
    \/ SharedCommitJoin
    \/ ConcTake
    \/ HookRuns
    \/ CommitWrite
    \/ CommitRecord
    \/ CommitReturn
SpecShared == InitShared /\ [][NextShared]_vars

(***************************************************************************)
(* API keys: ApiKeyService (createForUser, validate, revoke) and the       *)
(* authMiddleware that calls validate.  A key is the text                  *)
(* upl_live_<clientId>_<clientSecret>; the table keeps the HMAC of the     *)
(* secret.  validate awaits findOne, so the row it decides on is the row   *)
(* as it was when the query ran; revoke and the clock may move in between. *)
(***************************************************************************)

\* Date.now() runs over 0..MaxClock
MaxClock == 3
\* Requests answered in one behaviour
MaxAuthRequests == 2

KeyPrefix == <<"u", "p", "l", "_", "l", "i", "v", "e", "_">>
TestPrefix == <<"u", "p", "l", "_", "t", "e", "s", "t", "_">>

\* `upl_live_${clientId}_${clientSecret}`
ApiKeyOf(clientId, clientSecret) == KeyPrefix \o clientId \o <<"_">> \o clientSecret

\* parts[2] and parts.slice(3).join("_") of apiKey.split("_")
ClientIdOf(apiKey) == Split(apiKey, "_")[3]
ClientSecretOf(apiKey) ==
    LET parts == Split(apiKey, "_") IN JoinWith(SubSeq(parts, 4, Len(parts)), "_")

\* ApiKeyModel.findOne({ where: { id: clientId } }): the revoked filter left out
findOneAnyState(store, clientId) ==
    IF clientId \in DOMAIN store THEN store[clientId] ELSE NoKey

\* ApiKeyModel.findOne({ where: { id: clientId, revoked: false } })
findOne(store, clientId) ==
    IF clientId \in DOMAIN store /\ ~store[clientId].revoked
    THEN store[clientId] ELSE NoKey

\* validate after the await: null for no row, for an expired row and for a
\* secret whose HMAC differs from secret_hash; the row otherwise
validateRow(key, clientSecret, now) ==
    IF ~key.found THEN NoKey
    ELSE IF key.expires_at # 0 /\ key.expires_at <= now THEN NoKey
    ELSE IF hmacSecret(clientSecret) # key.secret_hash THEN NoKey
    ELSE key

\* UserModel.findByPk
AkUsers == {"u1"}
findByPk(userId) == userId \in AkUsers

\* Client ids and secrets of the keys in play; "c_d" is an id with the
\* separator in it, as base64url ids may have
AkIdA == <<"a">>
AkIdB == <<"b">>
AkIdCD == <<"c", "_", "d">>
AkSecretS == <<"s">>
AkSecretT == <<"t">>

\* What a client may present: nothing, the three issued keys, a wrong secret,
\* an unknown id, another prefix, and a key of three parts
AkHeaders ==
    { <<>>,
      ApiKeyOf(AkIdA, AkSecretS),
      ApiKeyOf(AkIdA, AkSecretT),
      ApiKeyOf(AkIdB, AkSecretT),
      ApiKeyOf(AkIdCD, AkSecretS),
      ApiKeyOf(<<"x">>, AkSecretS),
      TestPrefix \o AkIdA \o <<"_">> \o AkSecretS,
      KeyPrefix \o AkIdA }

\* The table holds the key of client a, with or without an expiry date
AkInit ==
    /\ \E e \in {0, MaxClock - 1} :
           akStore = (AkIdA :> KeyRow(AkIdA, "u1", hmacSecret(AkSecretS), FALSE, e))
    /\ akNow = 0
    /\ akReq = IdleAuth
    /\ akCount = 0

NotAk == <<sjVars, upVars, awVars, vVars, sanVars, cmDisk, cmHook, cmReq, swReq,
           ttAge, dpVars>>

\* createForUser: a fresh client id, the secret's HMAC stored, not revoked, no
\* expiry.  A colliding id is retried with another one.
CreateForUserOf(clientId, clientSecret, userId) ==
    /\ clientId \notin DOMAIN akStore
    /\ akStore' = [id \in DOMAIN akStore \cup {clientId} |->
                     IF id = clientId
                     THEN KeyRow(clientId, userId, hmacSecret(clientSecret), FALSE, 0)
                     ELSE akStore[id]]
    /\ UNCHANGED <<akNow, akReq, akCount, NotAk>>

CreateForUser ==
    \/ CreateForUserOf(AkIdB, AkSecretT, "u2")
    \/ CreateForUserOf(AkIdCD, AkSecretS, "u1")

\* revoke(clientId): update({ revoked: true }, { where: { id: clientId } })
Revoke ==
    \E clientId \in DOMAIN akStore :
        /\ ~akStore[clientId].revoked
        /\ akStore' = [akStore EXCEPT ![clientId].revoked = TRUE]
        /\ UNCHANGED <<akNow, akReq, akCount, NotAk>>

\* Time passes
AkTick ==
    /\ akNow < MaxClock
    /\ akNow' = akNow + 1
    /\ UNCHANGED <<akStore, akReq, akCount, NotAk>>

\* authMiddleware up to the await inside validate: 401 without a header; null,
\* hence 401, for another prefix or fewer than four parts; else the query runs
AuthStart ==
    /\ akReq.pc = "idle"
    /\ akCount < MaxAuthRequests
    /\ \E raw \in AkHeaders :
        IF raw = <<>> \/ ~StartsWith(raw, KeyPrefix) \/ Len(Split(raw, "_")) < 4
        THEN akReq' = [IdleAuth EXCEPT !.pc = "done", !.raw = raw, !.status = "401"]
        ELSE akReq' = [IdleAuth EXCEPT
                          !.pc = "lookup",
                          !.raw = raw,
                          !.clientId = ClientIdOf(raw),
                          !.clientSecret = ClientSecretOf(raw),
                          !.key = findOne(akStore, ClientIdOf(raw)),
                          !.revokedAtLookup =
                              /\ ClientIdOf(raw) \in DOMAIN akStore
                              /\ akStore[ClientIdOf(raw)].revoked]
    /\ UNCHANGED <<akStore, akNow, akCount, NotAk>>

\* validate after the await, and authMiddleware's test of what it returned
AuthValidated ==
    /\ akReq.pc = "lookup"
    /\ LET result == validateRow(akReq.key, akReq.clientSecret, akNow) IN
           akReq' = [akReq EXCEPT
                        !.result = result,
                        !.checkedAt = akNow,
                        !.pc = IF result.found THEN "validated" ELSE "done",
                        !.status = IF result.found THEN "none" ELSE "401"]
    /\ UNCHANGED <<akStore, akNow, akCount, NotAk>>

\* authMiddleware after validate: the key's user is looked up; next() or 401
AuthUser ==
    /\ akReq.pc = "validated"
    /\ akReq' = [akReq EXCEPT
                    !.pc = "done",
                    !.status = IF findByPk(akReq.result.user_id) THEN "next" ELSE "401"]
    /\ UNCHANGED <<akStore, akNow, akCount, NotAk>>

\* The next request arrives
AuthNext ==
    /\ akReq.pc = "done"
    /\ akReq' = IdleAuth
    /\ akCount' = akCount + 1
    /\ UNCHANGED <<akStore, akNow, NotAk>>

InitAuth == AkInit /\ SjIdle /\ UpIdle /\ AwIdle /\ VIdle /\ SanIdle /\ CmQuiet
NextAuth ==
    \/ CreateForUser
    \/ Revoke
    \/ AkTick
    \/ AuthStart
    \/ AuthValidated
    \/ AuthUser
    \/ AuthNext
SpecAuth == InitAuth /\ [][NextAuth]_vars

(***************************************************************************)
(* Claims about the path guard.                                            *)
(***************************************************************************)

\* C1: safeJoin(root, relative) either throws or returns the resolution of
\* relative against the resolved root, and a returned path is the resolved root
\* or lies under it at a separator boundary (its segments start with the
\* root's); a sibling whose name only starts with the root's name is never
\* returned.
C1_SafeJoinStaysInsideRoot ==
    sjOut.kind # "none" =>
        /\ sjOut.kind \in {"ok", "throw"}
        /\ sjOut.kind = "ok" =>
              /\ sjOut.path = PathResolve2(PathResolve1(sjRoot), sjRel)
              /\ Contained(PathResolve1(sjRoot), sjOut.path)
        /\ ~Contained(PathResolve1(sjRoot), PathResolve2(PathResolve1(sjRoot), sjRel))
              => sjOut.kind = "throw"

\* C1 witness: an input with ".." that resolves to a sibling "<root>E" of the
\* root, whose text starts with the root's text, was rejected.
C1_Witness_SiblingRejected ==
    /\ sjOut.kind = "throw"
    /\ sjRoot = <<"/", "r">>
    /\ sjRel = <<".", ".", "/", "r", "E">>
    /\ StartsWith(PathResolve2(PathResolve1(sjRoot), sjRel), PathResolve1(sjRoot))

\* C2: every path UploadService.upload hands to fs.mkdir or fs.writeFile lies
\* inside STORAGE_ROOT at a separator boundary.
C2_UploadIoInsideRoot ==
    \A p \in upIo : Contained(upRoot, p)

(***************************************************************************)
(* Claims about the atomic writer.                                         *)
(***************************************************************************)

\* The files a reader of targetPath may see: what was there before, or the
\* complete buffer of a call whose rename has happened.
AwCompleteFiles ==
    OldFiles \cup {File(awBuf[w]) : w \in {v \in Writers : awPc[v] = "done"}}

\* C3: at every moment of every interleaving of writeFileAtomic calls on one
\* targetPath, failed calls included, targetPath names the previous file (or
\* none) or the complete buffer of one call, and so does every read of it; a
\* call whose rename has not happened has not changed what targetPath names.
C3_ReaderNeverSeesPartialFile ==
    /\ awFs[TargetPath] \in AwCompleteFiles
    /\ awSeen \in AwCompleteFiles
    /\ (\A w \in Writers : awPc[w] # "done") => awFs[TargetPath] \in OldFiles

\* C3 witness: one call failed part-way through writing its buffer, leaving a
\* shorter temporary file, the other call completed, and the reader read the
\* complete new buffer at targetPath.
C3_Witness_FailedAndCompletedCall ==
    \E w, v \in Writers :
        /\ awPc[w] = "failed"
        /\ awFs[TmpPath(w)].exists
        /\ Len(awFs[TmpPath(w)].data) < Len(awBuf[w])
        /\ awPc[v] = "done"
        /\ Len(awBuf[v]) = AwMaxLen
        /\ awSeen = File(awBuf[v])
        /\ awFs[TargetPath] = File(awBuf[v])

(***************************************************************************)
(* Claims about classification and batch validation.                       *)
(***************************************************************************)

\* The files the middleware handed on as validated (positions in req.files).
VAccepted ==
    IF vMw = "pure" THEN {vValidated[k].index + 1 : k \in 1..Len(vValidated)}
    ELSE 1..Len(vValidated)

\* C4: a file whose bytes carry a PNG signature is classified image whatever
\* MIME type and filename were declared, and two files of a request with the
\* same bytes get the same category.
C4_ClassificationFollowsContent ==
    \A i \in 1..Len(vKinds) :
        /\ vFiles[i].content.magic = Mime("image", "png") => vKinds[i] = "image"
        /\ \A j \in 1..Len(vKinds) :
              vFiles[i].content = vFiles[j].content => vKinds[i] = vKinds[j]

\* C5: a file in whose bytes no signature is found is given no category and is
\* never among the validated files.
C5_NoSignatureIsRejected ==
    \A i \in 1..Len(vKinds) :
        vFiles[i].content.magic = NoMime =>
            /\ vKinds[i] \in {"unknown", "none", "unseen"}
            /\ i \notin VAccepted

\* A file passes classification and policy of the middleware that handles it.
FilePasses(i) ==
    IF vMw = "pure" THEN PureOutcome(vFiles[i], vReqType).ok
    ELSE MediaVerdict(vFiles[i]) = ""

\* C6: for a request that carries files, the middleware calls next() and
\* attaches the validated list if and only if every file passed; then the list
\* holds every file of the request.  If any file fails (or the request has no
\* file) a 400 is sent, next() is not called and nothing is attached.  Before
\* the response is decided nothing is handed on.
C6_BatchAllOrNothing ==
    /\ vNextCalled = vAttached.set
    /\ vPc # "sent" => ~vNextCalled /\ vRes = NoResponse
    /\ vPc = "sent" =>
          /\ vNextCalled <=> (Len(vFiles) > 0 /\ \A i \in 1..Len(vFiles) : FilePasses(i))
          /\ vNextCalled => /\ vRes = NoResponse
                            /\ VAccepted = 1..Len(vFiles)
                            /\ Len(vAttached.files) = Len(vFiles)
          /\ ~vNextCalled => vRes.status = 400

\* C6 witness: a batch of two files handled by validateAndDispatchPure whose
\* first file passes and whose second fails was answered with the 400 that
\* names the second file, without next().
C6_Witness_OneFailureRejectsBatch ==
    /\ vPc = "sent"
    /\ vMw = "pure"
    /\ Len(vFiles) = 2
    /\ FilePasses(1)
    /\ ~FilePasses(2)
    /\ ~vNextCalled
    /\ vRes.status = 400
    /\ vRes.details = <<[index |-> 1, reason |-> PureOutcome(vFiles[2], vReqType).reason]>>

(***************************************************************************)
(* Claims about the filename sanitizer.                                    *)
(***************************************************************************)

\* C9: sanitizeFilename is idempotent: applied to its own result it returns
\* that result, for every input, the ones longer than 200 characters included.
C9_SanitizeIdempotent ==
    sanPc = 2 => sanOut2 = sanOut

\* C10: the result of sanitizeFilename has at most 200 characters, all of
\* [a-zA-Z0-9-_.], holds no separator, and neither starts nor ends with the
\* underscore filler.
C10_SanitizedTokenShape ==
    sanPc >= 1 =>
        /\ Len(sanOut) <= SanMaxLen
        /\ \A i \in 1..Len(sanOut) : sanOut[i] \in SafeNameChars /\ sanOut[i] # Sep
        /\ Len(sanOut) > 0 => sanOut[1] # "_" /\ sanOut[Len(sanOut)] # "_"

(***************************************************************************)
(* Claims about staging and commit.                                        *)
(***************************************************************************)
LastRecord(c) == cmReq[c].results[Len(cmReq[c].results)]

\* C7: with no processing hook installed, staging bytes B at index i with
\* saveTempFiles and then committing that index produces a final file whose
\* content is exactly B, and the record of that mapping has
\* sha256 = SHA-256(B) and size_bytes = length(B).
C7_RoundTripWithoutHook ==
    \A c \in Procs :
        (cmReq[c].pc = "recorded" /\ ~cmHook) =>
            /\ cmReq[c].mapping.tempIndex < Len(cmReq[c].staged)
            /\ LET B == cmReq[c].staged[cmReq[c].mapping.tempIndex + 1]
               IN  /\ cmFs[cmReq[c].finalAbs] = B
                   /\ LastRecord(c).sha256 = computeSha256(B)
                   /\ LastRecord(c).size_bytes = Len(B)

\* The second staged file has been committed with no hook installed, and its
\* bytes are at the final path.
C7_Witness_SecondFileCommitted ==
    /\ cmReq[1].pc = "recorded"
    /\ ~cmHook
    /\ cmReq[1].mapping.tempIndex = 1
    /\ cmReq[1].finalAbs \in DOMAIN cmFs
    /\ cmFs[cmReq[1].finalAbs] = SampleBytes(2)
    /\ LastRecord(1).size_bytes = 2

\* C8: for every record of commitTempToFinal, sha256 and size_bytes are those
\* of the bytes at the final path after the hook has run, not of the staged
\* bytes, whether the hook wrote its output, returned null or threw; where the
\* output of the hook became the final file they are those of that output.
C8_DigestOfFinalBytes ==
    \A c \in Procs :
        cmReq[c].pc = "recorded" =>
            /\ LastRecord(c).sha256 = computeSha256(cmFs[cmReq[c].finalAbs])
            /\ LastRecord(c).size_bytes = Len(cmFs[cmReq[c].finalAbs])
            /\ (cmReq[c].hookOutcome \in {"wrote", "wroteAndNull"} /\ cmReq[c].fromTmp) =>
                    /\ LastRecord(c).sha256 = computeSha256(HookOutput)
                    /\ LastRecord(c).size_bytes = Len(HookOutput)
            /\ cmReq[c].hookOutcome \in {"null", "threw", "wroteAndThrew", "removed"} =>
                    LastRecord(c).sha256 = computeSha256(cmReq[c].buffer)

\* The hook wrote its output, which became the final file and differs from the
\* staged bytes, and the record has been pushed.
C8_Witness_HookTransformed ==
    /\ cmReq[1].pc = "recorded"
    /\ cmReq[1].hookOutcome = "wrote"
    /\ cmReq[1].fromTmp
    /\ cmFs[cmReq[1].finalAbs] # cmReq[1].buffer
    /\ LastRecord(1).sha256 # computeSha256(cmReq[1].buffer)

\* C11: sanitizeFilename turns a whitespace run into one '_' and strips
\* punctuation, so that 'My Photo!!.PNG' gives exactly 'My_Photo.PNG'; a run
\* of disallowed characters inside a name leaves no extra filler: a name that
\* holds no underscore never gives two fillers in a row.
C11_ExampleSanitizesWithoutExtraFiller ==
    sanPc >= 1 =>
        /\ sanIn = ExampleName =>
                sanOut = <<"M", "y", "_", "P", "h", "o", "t", "o", ".", "P", "N", "G">>
        /\ (\A i \in 1..Len(sanIn) : sanIn[i] # "_") =>
                \A i \in 1..(Len(sanOut) - 1) : ~(sanOut[i] = "_" /\ sanOut[i + 1] = "_")

(***************************************************************************)
(* Claims about the failures of a commit.                                  *)
(***************************************************************************)

\* C12: a mapping whose tempIndex has no staged file makes commitTempToFinal
\* reject, unless options.failIfMissing is false, and only then is the mapping
\* skipped and the loop goes on; a commit called without options rejects.
C12_MissingEntryRejectsUnlessOptedOut ==
    \A c \in Procs :
        LET req == cmReq[c]
            optedOut == req.options.given /\ ~req.options.failIfMissing
        IN  /\ (req.pc = "loop" /\ req.i > 0) => optedOut
            /\ (req.pc = "threw" /\ req.reply.error = "temp file index missing") => ~optedOut

\* C13: when the hook throws or returns null for a mapping, the final file of
\* that mapping holds the raw staged bytes and a record of those bytes is
\* pushed for it.
C13_HookFailureFallsBackToRawBytes ==
    \A c \in Procs :
        LET req == cmReq[c]
        IN  (req.pc = "recorded"
                /\ req.hookOutcome \in {"threw", "wroteAndThrew", "null", "wroteAndNull"}) =>
                    /\ cmFs[req.finalAbs] = req.buffer
                    /\ LastRecord(c).sha256 = computeSha256(req.buffer)
                    /\ LastRecord(c).size_bytes = Len(req.buffer)

\* C16: when mapping k fails after the mappings before it were written, their
\* files stay in final storage and the caller receives their records together
\* with the failure.
C16_PartialResultsReachTheCaller ==
    \A c \in Procs :
        LET req == cmReq[c]
        IN  (req.pc = "threw" /\ Len(req.results) > 0) =>
                /\ \A k \in 1..Len(req.results) :
                        PathJoin(FINAL_ROOT, req.results[k].storage_path) \in DOMAIN cmFs
                /\ req.reply.results = req.results


(***************************************************************************)
(* Claims about the life of a temp session.                                *)
(***************************************************************************)

\* C14: a saveTempFileStream call made on a session whose commitTempToFinal
\* has begun fails with SessionBusy and adds no entry, and no streamed file
\* lands in a session while its commit is in progress.
C14_BusySessionRejectsWrites ==
    /\ (swReq.pc \in {"dir", "piped", "done", "threw"} /\ swReq.commitBegun) =>
          /\ swReq.pc = "threw"
          /\ swReq.reply = "SessionBusy"
    /\ ~swReq.duringCommit

\* A session is closed: its commit returned and its directory is gone
SessionClosed(c) ==
    /\ cmReq[c].pc = "returned"
    /\ ~pathExists(cmFs, cmDirs, cmReq[c].tempDir)

\* C15: once a commit has removed the temp directory of its session, no later
\* step brings the directory back.
C15_ClosedIsTerminal ==
    [][\A c \in Procs : SessionClosed(c) => SessionClosed(c)']_vars


\* C18: a staged session that is never committed is removed once it is older
\* than config.tempTtl: MaxOverdue seconds past the TTL its directory is gone.
C18_StaleSessionIsSwept ==
    (cmReq[1].pc = "staged" /\ ttAge >= tempTtl + MaxOverdue) =>
        ~pathExists(cmFs, cmDirs, safeJoin(TEMP_ROOT, cmReq[1].tempSaved.tempId).path)


(***************************************************************************)
(* Claims about deletePath.                                                *)
(***************************************************************************)
DeleteTarget == safeJoin(FINAL_ROOT, StripLeadingSep(dpRel))

\* C19: deletePath on a path inside the final root answers true whether or
\* not the path exists, after it the path does not exist, a path that did not
\* exist leaves the disk as it was, and a second deletePath of the same path
\* answers the same and leaves the disk as the first call left it.
C19_DeletePathIdempotent ==
    /\ (dpPc >= 1 /\ DeleteTarget # Thrown) =>
          /\ dpReply[1] = "true"
          /\ ~pathExists(dpFirst.after.fs, dpFirst.after.dirs, DeleteTarget.path)
          /\ ~pathExists(dpFirst.before.fs, dpFirst.before.dirs, DeleteTarget.path)
                => dpFirst.after = dpFirst.before
    /\ dpPc = 2 =>
          /\ dpReply[2] = dpReply[1]
          /\ DiskOf(cmFs, cmDirs) = dpFirst.after

\* C19 witness: a directory with files in it was deleted, then deleted again
\* when it no longer existed, and both calls answered true.
C19_Witness_DirectoryDeletedTwice ==
    /\ dpPc = 2
    /\ dpRel = <<"d">>
    /\ dpReply = <<"true", "true">>
    /\ FINAL_ROOT \o <<Sep, "d", Sep, "e", Sep, "a">> \in DOMAIN dpFirst.before.fs
    /\ dpFirst.after # dpFirst.before


(***************************************************************************)
(* Claims about the temp directory after the commit.                       *)
(***************************************************************************)
\* Nothing exists at or under the directory
NothingUnder(tempDir) ==
    \A p \in (DOMAIN cmFs) \cup cmDirs : ~Contained(tempDir, p)

\* C20: once commitTempToFinal has returned, neither the temp directory of the
\* session nor any entry under it exists (staged entries no mapping referenced
\* included), a getTempFiles on that tempId answers "temp id not found", and
\* so does a later commitTempToFinal on it.
C20_TempDirGoneAfterCommit ==
    /\ [](\A c \in Procs :
            cmReq[c].pc = "returned" =>
                /\ NothingUnder(cmReq[c].tempDir)
                /\ cmReq[c].listing # NoListing =>
                      cmReq[c].listing.kind = "temp id not found")
    /\ [][\A c \in Procs :
            (cmReq[c].pc = "returned" /\ cmReq'[c].pc # "returned") =>
                /\ cmReq'[c].pc = "threw"
                /\ cmReq'[c].reply.error = "temp id not found"]_vars

\* C20 witness: two files were staged, the commit recorded one mapping and
\* returned, so a staged entry was referenced by no mapping, and getTempFiles
\* was then called on the tempId.
C20_Witness_UnreferencedEntryGone ==
    /\ cmReq[1].pc = "returned"
    /\ Len(cmReq[1].staged) = 2
    /\ Len(cmReq[1].reply.results) = 1
    /\ cmReq[1].listing # NoListing


(***************************************************************************)
(* Claims about concurrent commits.                                        *)
(***************************************************************************)
\* The file a result record points at holds the bytes the record describes
RecordAbs(record) == PathJoin(FINAL_ROOT, record.storage_path)
RecordStands(record) ==
    LET abs == RecordAbs(record)
    IN  /\ abs \in DOMAIN cmFs
        /\ record.sha256 = computeSha256(cmFs[abs])
        /\ record.size_bytes = Len(cmFs[abs])

\* C17: with two commits interleaved on two sessions and two target
\* directories, each request sees what it would see alone: its staged files
\* stay as staged until its own commit returns, the bytes it reads are its
\* own, its commit never fails, every record it has pushed keeps describing
\* the file at its path, that path lies in its own target directory, and when
\* it returns only its own temp directory is gone.
C17_ConcurrentCommitsDoNotInterfere ==
    \A c \in Procs :
        LET req == cmReq[c]
            inFlight == req.pc \in {"loop", "hook", "write", "stat", "recorded"}
        IN  /\ req.pc # "threw"
            /\ (req.pc = "staged" \/ inFlight) =>
                  \A i \in 1..Len(req.staged) :
                      /\ req.tempSaved.files[i].tempPath \in DOMAIN cmFs
                      /\ cmFs[req.tempSaved.files[i].tempPath] = req.staged[i]
            /\ req.pc \in {"hook", "write", "stat"} =>
                  req.buffer = req.staged[req.mapping.tempIndex + 1]
            /\ \A k \in 1..Len(req.results) :
                  /\ RecordStands(req.results[k])
                  /\ Contained(req.finalBaseAbs, RecordAbs(req.results[k]))
                  /\ ~cmHook => cmFs[RecordAbs(req.results[k])] = SampleBytes(c)
            /\ req.pc = "returned" =>
                  /\ ~pathExists(cmFs, cmDirs, req.tempDir)
                  /\ Len(req.reply.results) = Len(req.results)

\* C17 witness: both commits are in the middle of their work at the same
\* time, request 1 having recorded its file while request 2 is about to write
\* its own.
C17_Witness_BothCommitsInFlight ==
    /\ cmReq[1].pc = "recorded"
    /\ cmReq[2].pc = "write"
    /\ Len(cmReq[1].results) = 1


(***************************************************************************)
(* Claims about the rejection of a batch.                                  *)
(***************************************************************************)
\* The positions (from 0) of the files the running middleware's own policy fails
FailingIndexes ==
    {k - 1 : k \in {j \in 1..Len(vFiles) :
                        IF vMw = "pure" THEN ~PureOutcome(vFiles[j], vReqType).ok
                        ELSE MediaVerdict(vFiles[j]) # ""}}

\* C21: the 400 a middleware sends for a batch with failing files lists every
\* failing file once, by its position in the batch, with a reason.
C21_RejectionListsEveryFailure ==
    (vPc = "sent" /\ vRes.status = 400 /\ FailingIndexes # {}) =>
        /\ {vRes.details[k].index : k \in 1..Len(vRes.details)} = FailingIndexes
        /\ Len(vRes.details) = Cardinality(FailingIndexes)
        /\ \A k \in 1..Len(vRes.details) : vRes.details[k].reason # ""

\* The same for validateAndDispatchPure alone
C21_PureListsEveryFailure == vMw = "pure" => C21_RejectionListsEveryFailure


\* C22: once a middleware has rejected a batch, none of the batch's files is
\* left on disk, the ones that passed no more than the ones that failed.
C22_RejectedBatchLeavesNoFile ==
    (vPc = "sent" /\ vRes.status = 400) => vOnDisk = {}


(***************************************************************************)
(* Claims about the order of the checks on one file.                       *)
(***************************************************************************)
\* The byte limit the running middleware holds the file at position k to
\* (-1: none applies)
LimitOf(k) ==
    IF vMw = "pure"
    THEN (IF PureKind(vFiles[k]) = "unknown" THEN -1 ELSE PureMaxBytes(PureKind(vFiles[k])))
    ELSE (IF detectFileRule(vFiles[k]) = NoRule THEN -1 ELSE detectFileRule(vFiles[k]).maxSize)

\* C23: on every file the comparison of its size with the limit comes before
\* any reading of its signature and any decoding, and the content of a file
\* over the limit is never read.
C23_SizeCheckedBeforeContent ==
    \A n \in 1..Len(vWork) :
        vWork[n].op \in {"signature", "decode"} =>
            /\ \E m \in 1..(n - 1) : vWork[m].index = vWork[n].index /\ vWork[m].op = "size"
            /\ LET k == vWork[n].index + 1
               IN  LimitOf(k) >= 0 => FileSize(vFiles[k]) <= LimitOf(k)

\* Inside the validators the size is compared before the decoder runs
C23_ValidatorsSizeFirst ==
    \A n \in 1..Len(vWork) :
        vWork[n].op = "decode" =>
            /\ \E m \in 1..(n - 1) : vWork[m].index = vWork[n].index /\ vWork[m].op = "size"
            /\ FileSize(vFiles[vWork[n].index + 1]) <= LimitOf(vWork[n].index + 1)


(***************************************************************************)
(* Claims about the probe of audio and video files.                        *)
(***************************************************************************)
\* C24: an audio or video file accepted without its duration and resolution
\* having been checked (no probe, a failed probe, no format) carries in its
\* accept result a record of the skipped check; its meta is not simply null.
C24_SkippedProbeIsRecorded ==
    \A n \in 1..Len(vValidated) :
        LET entry == vValidated[n]
            file == vFiles[entry.index + 1]
        IN  (entry.type \in {"audio", "video"} /\ ~file.content.probeOk) =>
                entry.meta # "null"

\* The accept of a probed file carries what the probe reported
C24_ProbedAcceptHasMeta ==
    \A n \in 1..Len(vValidated) :
        LET entry == vValidated[n]
            file == vFiles[entry.index + 1]
        IN  (entry.type \in {"audio", "video"} /\ file.content.probeOk) =>
                entry.meta = "probe"


(***************************************************************************)
(* Claims about a failed writeFileAtomic.                                  *)
(***************************************************************************)
\* C25: a writeFileAtomic call that has failed leaves no temporary sibling
\* of targetPath behind.
C25_FailedWriteLeavesNoTmp ==
    \A w \in Writers : awPc[w] = "failed" => ~awFs[TmpPath(w)].exists


\* C26: whatever relativePath deletePath is given, the final root directory
\* is still there afterwards, and so is, unchanged, every file that does not
\* lie at or under the named path.
C26_DeletePathSparesTheRoot ==
    dpPc >= 1 =>
        /\ FINAL_ROOT \in cmDirs
        /\ DeleteTarget # Thrown =>
              \A p \in DOMAIN dpFirst.before.fs :
                  ~Contained(DeleteTarget.path, p) =>
                      /\ p \in DOMAIN cmFs
                      /\ cmFs[p] = dpFirst.before.fs[p]

\* What lies outside the named path is left as it was
C26_OutsideUntouched ==
    (dpPc >= 1 /\ DeleteTarget # Thrown) =>
        \A p \in DOMAIN dpFirst.before.fs :
            ~Contained(DeleteTarget.path, p) =>
                /\ p \in DOMAIN cmFs
                /\ cmFs[p] = dpFirst.before.fs[p]


(***************************************************************************)
(* Claims about the records a commit returns.                              *)
(***************************************************************************)
\* C27: when commitTempToFinal returns, every record it returns points at a
\* file that exists directly inside the requested target directory and whose
\* digest and size are the record's, also when two mappings carry names that
\* sanitize to the same filename.
C27_ReturnedRecordsMatchDisk ==
    \A c \in Procs :
        cmReq[c].pc = "returned" =>
            \A k \in 1..Len(cmReq[c].reply.results) :
                /\ RecordStands(cmReq[c].reply.results[k])
                /\ PathDirname(RecordAbs(cmReq[c].reply.results[k])) = cmReq[c].finalBaseAbs

\* The same for the commits whose records all carry different filenames
C27_DistinctNamesMatchDisk ==
    \A c \in Procs :
        LET results == cmReq[c].reply.results
        IN  (/\ cmReq[c].pc = "returned"
             /\ \A j, k \in 1..Len(results) : j # k => results[j].filename # results[k].filename)
            => \A k \in 1..Len(results) :
                   /\ RecordStands(results[k])
                   /\ PathDirname(RecordAbs(results[k])) = cmReq[c].finalBaseAbs


(***************************************************************************)
(* Claims about two commits of one session.                                *)
(***************************************************************************)
\* C28: of two commitTempToFinal calls on the same tempId at most one returns
\* records, and a commit that returns has a record for every mapping it was
\* given: none was dropped because the temp directory had gone.
C28_SessionCommittedAtMostOnce ==
    /\ ~(\A c \in Procs : cmReq[c].pc = "returned" /\ cmReq[c].tempId = SessionIdOf(1))
    /\ \A c \in Procs :
          cmReq[c].pc = "returned" => Len(cmReq[c].reply.results) = cmReq[c].i


(***************************************************************************)
(* Claims about the staging file of the processing hook.                   *)
(***************************************************************************)
\* The path holds ".proc.tmp-"
ProcTmpMark == <<".", "p", "r", "o", "c", ".", "t", "m", "p", "-">>
IsProcTmp(p) ==
    \E k \in 1..Len(p) :
        /\ k + Len(ProcTmpMark) - 1 <= Len(p)
        /\ SubSeq(p, k, k + Len(ProcTmpMark) - 1) = ProcTmpMark

\* C29: when commitTempToFinal has returned, no ".proc.tmp-" file that it
\* wrote for the hook is left on disk, whatever the hook did.
C29_NoHookStagingFileRemains ==
    \A c \in Procs :
        cmReq[c].pc = "returned" => \A p \in DOMAIN cmFs : ~IsProcTmp(p)


(***************************************************************************)
(* Claims about API keys.                                                  *)
(***************************************************************************)

\* validate returned the row it found
AkReturned == akReq.result.found

\* What holds of a returned key, and of an authenticated request
AkSound ==
    /\ AkReturned =>
          /\ StartsWith(akReq.raw, KeyPrefix)
          /\ akReq.result.id = ClientIdOf(akReq.raw)
          /\ akReq.result.id \in DOMAIN akStore
          /\ akReq.result.secret_hash = akStore[akReq.result.id].secret_hash
          /\ akReq.result.expires_at = akStore[akReq.result.id].expires_at
          /\ ~akReq.revokedAtLookup
          /\ ~akReq.result.revoked
          /\ \/ akReq.result.expires_at = 0
             \/ akReq.result.expires_at > akReq.checkedAt
          /\ hmacSecret(ClientSecretOf(akReq.raw)) = akReq.result.secret_hash
    /\ akReq.status = "next" => AkReturned

\* What no step changes: a revoked key stays revoked, no key is removed, no
\* expiry date or stored hash changes, the clock does not run backwards
AkPermanent ==
    /\ akNow' >= akNow
    /\ \A id \in DOMAIN akStore :
          /\ id \in DOMAIN akStore'
          /\ akStore[id].revoked => akStore'[id].revoked
          /\ akStore'[id].expires_at = akStore[id].expires_at
          /\ akStore'[id].secret_hash = akStore[id].secret_hash

\* C30: validate returns a key record only if the presented key has the
\* upl_live_ prefix, its client id (the third part) names a stored key that was
\* not revoked when the query ran and whose expires_at is absent or later than
\* the clock read by the check, and the HMAC of the presented secret (the
\* remaining parts) equals the stored secret_hash; authMiddleware calls next()
\* only with a returned key; a revoked key stays revoked, an expiry date and a
\* stored hash never change and the clock never runs backwards, so that a call
\* made after revoke, or checked after expiry, never returns the key.
C30_ValidateReturnsOnlyLiveKeys == []AkSound /\ [][AkPermanent]_vars

\* After an earlier request, the key of client a is presented with the right
\* secret; its row was revoked when the query ran, validate returned null and
\* the request is answered 401
C30_Witness_RevokedKeyRejected ==
    /\ akCount >= 1
    /\ akReq.pc = "done"
    /\ akReq.raw = ApiKeyOf(AkIdA, AkSecretS)
    /\ akStore[AkIdA].revoked
    /\ akReq.revokedAtLookup
    /\ ~AkReturned
    /\ akReq.status = "401"

\* A key is returned and its request is authenticated
C30_Witness_KeyAccepted == AkReturned /\ akReq.status = "next"

\* A key past its expiry date is answered 401
C30_Witness_ExpiredKeyRejected ==
    /\ akReq.pc = "done"
    /\ akReq.key.found
    /\ akReq.key.expires_at # 0
    /\ akReq.key.expires_at <= akReq.checkedAt
    /\ akReq.status = "401"

====
